---- MODULE Spec2Model ----
(***************************************************************************)
(* A model of the Go POD package (0xPARC/parcnet, go/pod): the typed value *)
(* model and its checks, the content-ID hasher (lean Poseidon IMT), the    *)
(* signer and verifier, and the JSON codec.                                *)
(*                                                                         *)
(* Representation.                                                         *)
(*  - big.Int: a record [nil, neg, mag]; mag is the magnitude as a         *)
(*    sequence of base-2^16 digits, most significant first, no leading 0.  *)
(*  - a Go string or []byte: a sequence of byte values.                    *)
(*  - a field element (a big.Int handled by the hashes): a record          *)
(*    [tag, neg, digits, args]; tag "num" is a number, "sha256" is the     *)
(*    31-byte prefix of the SHA-256 digest of the bytes in digits, and     *)
(*    "poseidon" is the Poseidon hash of the elements in args.  SHA-256    *)
(*    and Poseidon are kept symbolic: two hashes are equal exactly when    *)
(*    their inputs are equal.                                              *)
(*  - an error: a string, "" for nil.  A Go panic is the error "panic".    *)
(***************************************************************************)
EXTENDS Integers, Sequences, FiniteSets, TLC

VARIABLES
    entries,    \* the PodEntries map handed to the operation under test; a Pod
                \* built from it refers to this same map (Pod.Entries)
    cid,        \* result of the last computeContentID call, or NoResult
    cidPrev,    \* result of the computeContentID call before it, or NoResult
    iterOrder,  \* the map iteration order of the first of two calls
    reordered,  \* the second call iterated the map in another order
    pod,        \* the Pod struct: Signature and SignerPublicKey, or nil
    signErr,    \* the error CreatePod returned; "none" before the call
    signed,     \* what CreatePod was given: the key string, and the entries
                \* and their content ID when it made a Pod
    tamper,     \* what the caller changed in the Pod after it was made
    verifyRes,  \* the (bool, error) the last Verify call returned
    verifyPrev, \* the (bool, error) the Verify call before it returned
    wire,       \* the JSON json.Marshal wrote and its error, or NoWire
    decoded,    \* the entries and Pod json.Unmarshal read from wire, and its
                \* error, or NoDecoded
    rewire,     \* the JSON json.Marshal wrote of decoded, or NoWire
    made,       \* the PodValue a constructor returned, or a struct literal, with
                \* the error of the constructor or of Check, and the time
                \* NewPodDateValue was given; or NoMade
    written,    \* the JSON MarshalJSON wrote of made and its error, or NoWire
    given,      \* a JSON text of made in one of the accepted forms, or NoGiven
    parsed,     \* the PodValue UnmarshalJSON read from given and its error
    rewritten,  \* the JSON MarshalJSON wrote of parsed, or NoWire
    signer,     \* the Signer NewSigner returned and its error, or NoSigner
    calls       \* the frame of each call that may run beside the others: the
                \* operation, its arguments, its position, its local
                \* variables and what it returned

hashVars == <<cid, cidPrev, iterOrder, reordered>>
signVars == <<pod, signErr, signed, tamper, verifyRes, verifyPrev>>
codecVars == <<wire, decoded, rewire>>
valueVars == <<made, written, given, parsed, rewritten>>
signerVars == <<signer, calls>>
vars == <<entries, hashVars, signVars, codecVars, valueVars, signerVars>>

(***************************************************************************)
(* Bounds of the model.                                                    *)
(***************************************************************************)
MaxEntries == 3
MaxSignEntries == 2
MaxCodecEntries == 2

(***************************************************************************)
(* Sequences.                                                              *)
(***************************************************************************)
MinOf(S) == CHOOSE i \in S : \A j \in S : i <= j

\* Byte-wise lexicographic comparison, as Go compares strings: -1, 0 or 1.
SeqCmp(a, b) ==
    LET differ == { i \in DOMAIN a \cap DOMAIN b : a[i] # b[i] }
    IN  IF differ = {}
        THEN (IF Len(a) < Len(b) THEN -1 ELSE IF Len(a) > Len(b) THEN 1 ELSE 0)
        ELSE IF a[MinOf(differ)] < b[MinOf(differ)] THEN -1 ELSE 1

Perms(S) == { f \in [1..Cardinality(S) -> S] : \A x \in S : \E i \in DOMAIN f : f[i] = x }

(***************************************************************************)
(* math/big: magnitudes and signed integers.  A magnitude is a sequence of *)
(* digits of base 2^16, most significant first, without leading zero.      *)
(***************************************************************************)
Base == 65536

Strip(s) ==
    LET nonZero == { i \in DOMAIN s : s[i] # 0 }
    IN  IF nonZero = {} THEN <<>> ELSE SubSeq(s, MinOf(nonZero), Len(s))

\* a - b for a >= b: digit by digit, a position borrowing when the digits
\* below it are less in a than in b.
MagSub(a, b) ==
    LET n == Len(a)
        bp == [i \in 1..n |-> IF i <= n - Len(b) THEN 0 ELSE b[i - (n - Len(b))]]
        borrow(i) == IF SeqCmp(SubSeq(a, i + 1, n), SubSeq(bp, i + 1, n)) < 0 THEN 1 ELSE 0
    IN  Strip([i \in 1..n |-> (a[i] - bp[i] - borrow(i) + Base) % Base])

NilBig == [nil |-> TRUE, neg |-> FALSE, mag |-> <<>>]
Big(neg, mag) == [nil |-> FALSE, neg |-> neg /\ mag # <<>>, mag |-> mag]
Pos(mag) == Big(FALSE, mag)
Neg(mag) == Big(TRUE, mag)

\* big.Int.Cmp: the signs, then the magnitudes by length and digits.
Cmp(x, y) ==
    LET mags(a, b) == IF Len(a) < Len(b) THEN -1
                      ELSE IF Len(a) > Len(b) THEN 1 ELSE SeqCmp(a, b)
    IN  IF x.neg /\ ~y.neg THEN -1
        ELSE IF ~x.neg /\ y.neg THEN 1
        ELSE IF x.neg THEN mags(y.mag, x.mag)
        ELSE mags(x.mag, y.mag)

\* Characters, and the value of a hexadecimal digit character (-1 for others).
IsDigit(c) == c \in 48..57
IsUpper(c) == c \in 65..90
IsLower(c) == c \in 97..122
HexVal(c) == IF IsDigit(c) THEN c - 48
             ELSE IF c \in 97..102 THEN c - 87
             ELSE IF c \in 65..70 THEN c - 55 ELSE -1

\* a * m + c on magnitudes, for m below 2^15 and c below 2^27.
RECURSIVE MagMulAdd(_, _, _)
MagMulAdd(a, m, c) ==
    IF a = <<>>
    THEN (IF c = 0 THEN <<>> ELSE IF c < Base THEN <<c>> ELSE <<c \div Base, c % Base>>)
    ELSE Append(MagMulAdd(SubSeq(a, 1, Len(a) - 1), m, (a[Len(a)] * m + c) \div Base),
                (a[Len(a)] * m + c) % Base)

\* The magnitude of digit characters of base 10 or 16 onto acc, a few digits
\* at a time: four decimal or three hexadecimal ones.
\* The digits scanDigits takes in one step, their number and their value.
chunkLen(cs, base) ==
    IF Len(cs) < (IF base = 10 THEN 4 ELSE 3) THEN Len(cs) ELSE (IF base = 10 THEN 4 ELSE 3)
RECURSIVE chunkVal(_, _, _)
chunkVal(cs, base, n) ==
    IF n = 0 THEN 0 ELSE chunkVal(cs, base, n - 1) * base + HexVal(cs[n])
RECURSIVE chunkPow(_, _)
chunkPow(base, n) == IF n = 0 THEN 1 ELSE base * chunkPow(base, n - 1)
RECURSIVE scanDigits(_, _, _)
scanDigits(acc, cs, base) ==
    IF cs = <<>> THEN acc
    ELSE IF Len(acc) >= 0
    THEN scanDigits(MagMulAdd(acc, chunkPow(base, chunkLen(cs, base)),
                              chunkVal(cs, base, chunkLen(cs, base))),
                    SubSeq(cs, chunkLen(cs, base) + 1, Len(cs)), base)
    ELSE <<>>

\* big.Int.SetString(s, base), base 10 or 16: an optional sign, then at least
\* one digit and nothing but digits.
SetString(cs, base) ==
    LET hasSign == cs # <<>> /\ cs[1] \in {43, 45}
        ds     == IF hasSign THEN Tail(cs) ELSE cs
    IN  IF ds = <<>> \/ \E i \in DOMAIN ds : HexVal(ds[i]) < 0 \/ HexVal(ds[i]) >= base
        THEN [val |-> NilBig, ok |-> FALSE]
        ELSE [val |-> Big(hasSign /\ cs[1] = 45, scanDigits(<<>>, ds, base)), ok |-> TRUE]

\* newBigIntFromDecimalLiteral, the literal given by its decimal digits.
newBigIntFromDecimalLiteral(decimalValue) ==
    SetString([i \in DOMAIN decimalValue |-> decimalValue[i] + 48], 10).val

Two63 == <<32768, 0, 0, 0>>
Two64 == <<1, 0, 0, 0, 0>>

\* big.Int.Int64: the value when it fits, otherwise the low 64 bits read as
\* two's complement (what the implementation returns).
Int64(x) ==
    LET low == IF Len(x.mag) <= 4 THEN x.mag
               ELSE Strip(SubSeq(x.mag, Len(x.mag) - 3, Len(x.mag)))
        u == IF x.neg /\ low # <<>> THEN MagSub(Two64, low) ELSE low
    IN  IF Cmp(Pos(u), Pos(Two63)) >= 0 THEN Neg(MagSub(Two64, u)) ELSE Pos(u)

\* constants.Q of go-iden3-crypto: the BN254 scalar field prime.
Q ==
    newBigIntFromDecimalLiteral(
        <<2,1,8,8,8,2,4,2,8,7,1,8,3,9,2,7,5,2,2,2,2,4,6,4,0,5,7,4,5,2,5,7,2,7,5,0,8,8,5,4,
          8,3,6,4,4,0,0,4,1,6,0,3,4,3,4,3,6,9,8,2,0,4,1,8,6,5,7,5,8,0,8,4,9,5,6,1,7>>)

(***************************************************************************)
(* Field elements and the hashes.                                          *)
(***************************************************************************)
NoFE == [tag |-> "nil", neg |-> FALSE, digits |-> <<>>, args |-> <<>>]
Num(x) == [tag |-> "num", neg |-> x.neg, digits |-> x.mag, args |-> <<>>]
Ok(v) == [val |-> v, err |-> ""]
Fail(e) == [val |-> NoFE, err |-> e]

\* hashBytes: SHA-256, first 31 bytes, big-endian.
hashBytes(data) == [tag |-> "sha256", neg |-> FALSE, digits |-> data, args |-> <<>>]
\* A hashString that hashes a mark of the kind in front of the bytes.
hashStringOfKind(s) == hashBytes(<<115>> \o s)
\* A hashString that reads the first byte only.
hashStringFirstByte(s) == hashBytes(SubSeq(s, 1, 1))
hashString(s) == hashBytes(s)

\* utils.CheckBigIntInField: a < Q (a negative number passes).
CheckBigIntInField(a) ==
    a.tag # "num" \/ Cmp(Big(a.neg, a.digits), Q) < 0

\* poseidon.Hash; a negative input stands for the field element it reduces to.
PoseidonHash(inputs) ==
    IF \E i \in DOMAIN inputs : ~CheckBigIntInField(inputs[i])
    THEN Fail("inputs values not inside Finite Field")
    ELSE Ok([tag |-> "poseidon", neg |-> FALSE, digits |-> <<>>,
             args |-> [i \in DOMAIN inputs |->
                         IF inputs[i].tag = "num" /\ inputs[i].neg
                         THEN Num(Pos(MagSub(Q.mag, inputs[i].digits)))
                         ELSE inputs[i]]])

\* fieldSafeInt64: x mod Q, never negative.
fieldSafeInt64(val) ==
    IF val.neg THEN Pos(MagSub(Q.mag, val.mag)) ELSE val

(***************************************************************************)
(* Byte strings and text.                                                  *)
(*                                                                         *)
(* Bytes is a []byte: raw holds the bytes when they are known; the output  *)
(* of the curve arithmetic (a compressed public key or signature) is not   *)
(* computed here and is named by sym instead: whose key, over which        *)
(* message, which bit was flipped afterwards (0: none), and whether the    *)
(* bytes are the compression of a curve point.                             *)
(* Str is a Go string: its characters (enc = "text"), or the hex or        *)
(* base64 encoding of some Bytes (enc = "hex", "b64" unpadded, "b64pad").  *)
(***************************************************************************)
NoSym == [kind |-> "raw", key |-> [id |-> 0, part |-> 0], msg |-> NoFE, flip |-> 0,
          curve |-> FALSE]
NoBytes == [nil |-> TRUE, n |-> 0, raw |-> <<>>, sym |-> NoSym]
RawBytes(b) == [nil |-> FALSE, n |-> Len(b), raw |-> b, sym |-> NoSym]
SymBytes(n, sym) == [nil |-> FALSE, n |-> n, raw |-> <<>>, sym |-> sym]

Text(chars) == [enc |-> "text", text |-> chars, data |-> NoBytes]
Encoded(enc, bytes) == [enc |-> enc, text |-> <<>>, data |-> bytes]

\* len(s)
StrLen(s) ==
    CASE s.enc = "text"   -> Len(s.text)
      [] s.enc = "hex"    -> 2 * s.data.n
      [] s.enc = "b64"    -> (4 * s.data.n + 2) \div 3
      [] s.enc = "b64pad" -> 4 * ((s.data.n + 2) \div 3)

\* encoding/hex DecodeString
hexDecodeString(s) ==
    CASE s.enc = "hex"  -> [val |-> s.data, err |-> ""]
      [] s.enc = "text" ->
           IF \E i \in DOMAIN s.text : HexVal(s.text[i]) < 0
           THEN [val |-> NoBytes, err |-> "encoding/hex: invalid byte"]
           ELSE IF Len(s.text) % 2 = 1
           THEN [val |-> NoBytes, err |-> "encoding/hex: odd length hex string"]
           ELSE [val |-> RawBytes([k \in 1..(Len(s.text) \div 2) |->
                                     16 * HexVal(s.text[2 * k - 1]) + HexVal(s.text[2 * k])]),
                 err |-> ""]
      [] OTHER -> [val |-> NoBytes, err |-> "encoding/hex: invalid byte"]

\* The 6-bit value of a base64 character of the standard alphabet, or -1.
B64Val(c) == IF IsUpper(c) THEN c - 65
             ELSE IF IsLower(c) THEN c - 71
             ELSE IF IsDigit(c) THEN c + 4
             ELSE IF c = 43 THEN 62
             ELSE IF c = 47 THEN 63 ELSE -1
B64Char(v) == IF v < 26 THEN v + 65
              ELSE IF v < 52 THEN v + 71
              ELSE IF v < 62 THEN v - 4
              ELSE IF v = 62 THEN 43 ELSE 47

\* The bytes of base64 characters: 3 for every 4 characters, 6 bits each.
B64Decode(cs) ==
    LET v(i) == IF i <= Len(cs) THEN B64Val(cs[i]) ELSE 0
        at(k) == 4 * ((k - 1) \div 3) + ((k - 1) % 3) + 1
    IN  [k \in 1..((3 * Len(cs)) \div 4) |->
           CASE (k - 1) % 3 = 0 -> 4 * v(at(k)) + (v(at(k) + 1) \div 16)
             [] (k - 1) % 3 = 1 -> 16 * (v(at(k)) % 16) + (v(at(k) + 1) \div 4)
             [] (k - 1) % 3 = 2 -> 64 * (v(at(k)) % 4) + v(at(k) + 1)]

\* The base64 characters of bytes, without padding.
B64Encode(bs) ==
    LET b(i) == IF i >= 1 /\ i <= Len(bs) THEN bs[i] ELSE 0
        at(j) == 3 * ((j - 1) \div 4)
    IN  [j \in 1..((4 * Len(bs) + 2) \div 3) |->
           B64Char(CASE (j - 1) % 4 = 0 -> b(at(j) + 1) \div 4
                     [] (j - 1) % 4 = 1 -> 16 * (b(at(j) + 1) % 4) + (b(at(j) + 2) \div 16)
                     [] (j - 1) % 4 = 2 -> 4 * (b(at(j) + 2) % 16) + (b(at(j) + 3) \div 64)
                     [] (j - 1) % 4 = 3 -> b(at(j) + 3) % 64)]

\* noPadB64.EncodeToString
noPadB64Encode(bytes) ==
    IF bytes.sym.kind = "raw" THEN Text(B64Encode(bytes.raw)) ELSE Encoded("b64", bytes)

\* hex.EncodeToString
hexEncodeToString(bytes) ==
    LET nibble(i) == IF i % 2 = 1 THEN bytes.raw[(i + 1) \div 2] \div 16
                                  ELSE bytes.raw[i \div 2] % 16
    IN  IF bytes.sym.kind = "raw"
        THEN Text([i \in 1..(2 * bytes.n) |->
                     IF nibble(i) < 10 THEN nibble(i) + 48 ELSE nibble(i) + 87])
        ELSE Encoded("hex", bytes)

\* The bytes a hex string gives when it is read as base64: other bytes, 3 for
\* every 4 characters.
HexReadAsB64(b) ==
    SymBytes((3 * 2 * b.n) \div 4, [kind |-> "junk", key |-> b.sym.key, msg |-> b.sym.msg,
                                     flip |-> b.sym.flip, curve |-> FALSE])

\* noPadB64.DecodeString: no padding character is accepted.
noPadB64DecodeString(s) ==
    CASE s.enc = "text"   ->
           IF (\E i \in DOMAIN s.text : B64Val(s.text[i]) < 0) \/ Len(s.text) % 4 = 1
           THEN [val |-> NoBytes, err |-> "illegal base64 data"]
           ELSE [val |-> RawBytes(B64Decode(s.text)), err |-> ""]
      [] s.enc = "b64"    -> [val |-> s.data, err |-> ""]
      [] s.enc = "b64pad" -> IF s.data.n % 3 = 0 THEN [val |-> s.data, err |-> ""]
                             ELSE [val |-> NoBytes, err |-> "illegal base64 data"]
      [] s.enc = "hex"    -> [val |-> HexReadAsB64(s.data), err |-> ""]

\* base64.StdEncoding.DecodeString: padded with = to a multiple of 4.
stdB64DecodeString(s) ==
    LET cs   == s.text
        pad  == IF Len(cs) >= 2 /\ cs[Len(cs)] = 61 /\ cs[Len(cs) - 1] = 61 THEN 2
                ELSE IF Len(cs) >= 1 /\ cs[Len(cs)] = 61 THEN 1 ELSE 0
        body == SubSeq(cs, 1, Len(cs) - pad)
    IN  CASE s.enc = "text"   ->
               IF (\E i \in DOMAIN body : B64Val(body[i]) < 0)
                  \/ Len(cs) % 4 # 0
                  \/ (pad > 0 /\ Len(body) % 4 # 4 - pad)
               THEN [val |-> NoBytes, err |-> "illegal base64 data"]
               ELSE [val |-> RawBytes(B64Decode(body)), err |-> ""]
          [] s.enc = "b64pad" -> [val |-> s.data, err |-> ""]
          [] s.enc = "b64"    -> IF s.data.n % 3 = 0 THEN [val |-> s.data, err |-> ""]
                                 ELSE [val |-> NoBytes, err |-> "illegal base64 data"]
          [] s.enc = "hex"    -> IF (2 * s.data.n) % 4 = 0
                                 THEN [val |-> HexReadAsB64(s.data), err |-> ""]
                                 ELSE [val |-> NoBytes, err |-> "illegal base64 data"]

\* A DecodeBase64Bytes that reads Base64 without padding only.
DecodeBase64BytesNoPad(encodedBytes) == noPadB64DecodeString(encodedBytes)
\* DecodeBase64Bytes: Base64 without padding, then with padding.
DecodeBase64Bytes(encodedBytes) ==
    IF noPadB64DecodeString(encodedBytes).err # ""
    THEN stdB64DecodeString(encodedBytes)
    ELSE noPadB64DecodeString(encodedBytes)

\* DecodeBytes: hex when the length is twice the expected one, else Base64;
\* checkDecoded is its tail, from the test of the decoder's error on.
checkDecoded(decodedBytes, malformed, expectedBytes) ==
    IF decodedBytes.err # "" THEN [val |-> NoBytes, err |-> malformed]
    ELSE IF decodedBytes.val.n # expectedBytes
    THEN [val |-> NoBytes, err |-> "must be hex or base64 string, wrong length"]
    ELSE decodedBytes
\* A DecodeBytes that reads hex only.
DecodeBytesHexOnly(encodedBytes, expectedBytes) ==
    checkDecoded(hexDecodeString(encodedBytes), "malformed private key", expectedBytes)
DecodeBytes(encodedBytes, expectedBytes) ==
    IF StrLen(encodedBytes) = expectedBytes * 2
    THEN checkDecoded(hexDecodeString(encodedBytes), "malformed private key", expectedBytes)
    ELSE checkDecoded(DecodeBase64Bytes(encodedBytes), "must be hex or base64 string",
                      expectedBytes)

(***************************************************************************)
(* babyjub: points, keys and signatures, kept symbolic.                    *)
(***************************************************************************)
\* The coordinates X and Y of the point some bytes decompress to.
Point(b) ==
    [axis \in 1..2 |->
        [tag |-> IF axis = 1 THEN "X" ELSE "Y", neg |-> FALSE,
         digits |-> b.raw \o <<b.sym.key.id, b.sym.key.part, b.sym.flip>>,
         args |-> <<b.sym.msg>>]]

\* PublicKeyComp.Decompress: fails when the 32 bytes are no curve point.
PublicKeyDecompress(b) ==
    IF b.sym.curve THEN [val |-> b, err |-> ""]
    ELSE [val |-> NoBytes, err |-> "babyjub: point decompression failed"]

(***************************************************************************)
(* PodValue.                                                               *)
(***************************************************************************)
PodNullValue == "null"
PodStringValue == "string"
PodBytesValue == "bytes"
PodCryptographicValue == "cryptographic"
PodIntValue == "int"
PodBooleanValue == "boolean"
PodEdDSAPubkeyValue == "eddsa_pubkey"
PodDateValue == "date"

\* time.Time: the day since January 1, 1970 (negative before), the
\* milliseconds within the day, the nanoseconds within the millisecond, and
\* whether the location is UTC.
Time(day, ms, sub, utc) == [day |-> day, ms |-> ms, sub |-> sub, utc |-> utc]
\* time.Time{}: January 1 of year 1, UTC.
ZeroTime == Time(-719162, 0, 0, TRUE)

\* The zero PodValue struct with its fields set one by one.
PodValue(t) == [ValueType |-> t, StringVal |-> Text(<<>>), BytesVal |-> NoBytes,
                BigVal |-> NilBig, BoolVal |-> FALSE, TimeVal |-> ZeroTime]

PodCryptographicMin == Pos(<<>>)
PodCryptographicMax ==
    newBigIntFromDecimalLiteral(
        <<2,1,8,8,8,2,4,2,8,7,1,8,3,9,2,7,5,2,2,2,2,4,6,4,0,5,7,4,5,2,5,7,2,7,5,0,8,8,5,4,
          8,3,6,4,4,0,0,4,1,6,0,3,4,3,4,3,6,9,8,2,0,4,1,8,6,5,7,5,8,0,8,4,9,5,6,1,6>>)
\* A least int that mirrors the greatest one.
PodIntMinMirrored == Neg(MagSub(Two63, <<1>>))
PodIntMin == Neg(Two63)
PodIntMax == Pos(MagSub(Two63, <<1>>))
\* time.UnixMilli(-8_640_000_000_000_000) and time.UnixMilli(8_640_000_000_000_000)
\* which are 100,000,000 days of 86,400,000 milliseconds before and after the
\* epoch.
PodDateMin == Time(-100000000, 0, 0, TRUE)
PodDateMax == Time(100000000, 0, 0, TRUE)

\* Time.Before compares instants; a.After(b) is b.Before(a).
TimeBefore(a, b) ==
    \/ a.day < b.day
    \/ a.day = b.day /\ a.ms < b.ms
    \/ a.day = b.day /\ a.ms = b.ms /\ a.sub < b.sub

\* Time.UnixMilli: the milliseconds since the epoch, rounded down.
UnixMilli(t) ==
    LET days == IF t.day < 0 THEN -t.day ELSE t.day
        whole == MagMulAdd(MagMulAdd(MagMulAdd(MagMulAdd(<<>>, 1, days), 864, 0), 100, 0),
                           1000, 0)
    IN  IF t.day < 0 THEN Neg(MagSub(whole, MagMulAdd(<<>>, 1, t.ms)))
        ELSE Pos(MagMulAdd(MagMulAdd(MagMulAdd(MagMulAdd(<<>>, 1, days), 864, 0), 100, 0),
                           1000, t.ms))

\* Bounds that are themselves out of range.
checkNumericBoundsOpen(val, minValue, maxValue) ==
    IF val.nil THEN "should not be nil"
    ELSE IF Cmp(val, minValue) <= 0 \/ Cmp(val, maxValue) >= 0 THEN "less than minimum"
    ELSE ""
checkNumericBounds(val, minValue, maxValue) ==
    IF val.nil THEN "should not be nil"
    ELSE IF minValue.nil \/ maxValue.nil THEN "requires a lower and upper bound"
    ELSE IF Cmp(val, minValue) < 0 THEN "less than minimum"
    ELSE IF Cmp(val, maxValue) > 0 THEN "less than minimum"
    ELSE ""

checkTimeBounds(val, minValue, maxValue) ==
    IF TimeBefore(val, minValue) THEN "less than minimum"
    ELSE IF TimeBefore(maxValue, val) THEN "less than minimum"
    ELSE ""

\* PodValue.checkWithNamePrefix: "" when the value is well-formed and in range.
checkWithNamePrefix(p) ==
    CASE p.ValueType = PodNullValue -> ""
      [] p.ValueType = PodStringValue -> ""
      [] p.ValueType = PodBytesValue ->
           IF p.BytesVal.nil THEN "should not be nil" ELSE ""
      [] p.ValueType = PodCryptographicValue ->
           checkNumericBounds(p.BigVal, PodCryptographicMin, PodCryptographicMax)
      [] p.ValueType = PodIntValue ->
           checkNumericBounds(p.BigVal, PodIntMin, PodIntMax)
      [] p.ValueType = PodBooleanValue -> ""
      [] p.ValueType = PodEdDSAPubkeyValue ->
           IF DecodeBytes(p.StringVal, 32).err # "" THEN "failed to decode public key" ELSE ""
      [] p.ValueType = PodDateValue ->
           checkTimeBounds(p.TimeVal, PodDateMin, PodDateMax)
      [] OTHER -> "unknown PodValueType"

\* PodValue.Check
Check(p) == checkWithNamePrefix(p)

\* "1d1d...1d", 64 characters
nullHashHex == [i \in 1..64 |-> IF i % 2 = 1 THEN 49 ELSE 100]
\* new(big.Int).SetString(nullHashHex, 16)
nullHash == SetString(nullHashHex, 16).val

\* PodValue.Hash.  BigVal.Int64() on a nil BigVal dereferences nil: a panic.
\* hashPublicKey is the eddsa_pubkey case after DecodeBytes.
hashPublicKey(publicKeyBytes) ==
    IF publicKeyBytes.err # "" THEN Fail("failed to decode public key")
    ELSE IF PublicKeyDecompress(publicKeyBytes.val).err # ""
    THEN Fail("failed to decompress public key")
    ELSE PoseidonHash(Point(publicKeyBytes.val))
Hash(p) ==
    CASE p.ValueType = PodStringValue -> Ok(hashString(p.StringVal.text))
      [] p.ValueType = PodBooleanValue ->
           PoseidonHash(<<Num(Pos(IF p.BoolVal THEN <<1>> ELSE <<>>))>>)
      [] p.ValueType = PodIntValue ->
           IF p.BigVal.nil THEN Fail("panic")
           ELSE PoseidonHash(<<Num(fieldSafeInt64(Int64(p.BigVal)))>>)
      [] p.ValueType = PodDateValue -> PoseidonHash(<<Num(UnixMilli(p.TimeVal))>>)
      [] p.ValueType = PodBytesValue -> Ok(hashBytes(p.BytesVal.raw))
      [] p.ValueType = PodCryptographicValue ->
           IF p.BigVal.nil THEN Fail("panic") ELSE PoseidonHash(<<Num(p.BigVal)>>)
      [] p.ValueType = PodEdDSAPubkeyValue -> hashPublicKey(DecodeBytes(p.StringVal, 32))
      [] p.ValueType = PodNullValue -> Ok(Num(nullHash))
      [] OTHER -> Fail("unknown PodValue type")

(***************************************************************************)
(* PodEntries: a map from names to values, here a function.                *)
(***************************************************************************)
\* PodNameRegex: ^[A-Za-z_]\w*$
PodNameRegex(name) ==
    /\ name # <<>>
    /\ ~IsDigit(name[1])
    /\ \A i \in DOMAIN name :
          IsDigit(name[i]) \/ IsUpper(name[i]) \/ IsLower(name[i]) \/ name[i] = 95

CheckPodName(name) == IF ~PodNameRegex(name) THEN "invalid POD name" ELSE ""

\* PodEntries.Check: a failure the range loop meets; which entry it meets
\* first does not matter to whether the result is nil.
EntriesCheck(p) ==
    IF \E n \in DOMAIN p : CheckPodName(n) # "" THEN "invalid POD name"
    ELSE IF \E n \in DOMAIN p : checkWithNamePrefix(p[n]) # ""
    THEN checkWithNamePrefix(p[CHOOSE n \in DOMAIN p : checkWithNamePrefix(p[n]) # ""])
    ELSE ""

(***************************************************************************)
(* The content ID.                                                         *)
(***************************************************************************)
\* A sort.Strings that leaves the keys as the map yielded them.
sortStringsUnsorted(keys) == keys
\* sort.Strings: byte-wise order; a key stands after the keys less than it.
sortStrings(keys) ==
    LET all == { keys[i] : i \in DOMAIN keys }
    IN  [i \in 1..Len(keys) |->
           CHOOSE k \in all : Cardinality({ j \in all : SeqCmp(j, k) < 0 }) = i - 1]

\* One level of leanPoseidonIMT: the loop over i, two items at a time.
RECURSIVE imtLevel(_, _, _)
\* A level that hashes the trailing unpaired element with itself.
imtLevelPadded(items, i, newItems) ==
    LET h == PoseidonHash(<<items[i], items[IF i + 1 <= Len(items) THEN i + 1 ELSE i]>>)
    IN  IF i > Len(items) THEN [val |-> newItems, err |-> ""]
        ELSE IF h.err # "" THEN [val |-> <<>>, err |-> "error hashing chunk"]
        ELSE imtLevel(items, i + 2, Append(newItems, h.val))
\* A level that drops the trailing unpaired element.
imtLevelDropsOdd(items, i, newItems) ==
    LET h == PoseidonHash(<<items[i], items[i + 1]>>)
    IN  IF i + 1 > Len(items) THEN [val |-> newItems, err |-> ""]
        ELSE IF h.err # "" THEN [val |-> <<>>, err |-> "error hashing chunk"]
        ELSE imtLevel(items, i + 2, Append(newItems, h.val))
imtLevel(items, i, newItems) ==
    LET h == PoseidonHash(<<items[i], items[i + 1]>>)
    IN  IF i > Len(items) THEN [val |-> newItems, err |-> ""]
        ELSE IF i + 1 <= Len(items)
        THEN IF h.err # "" THEN [val |-> <<>>, err |-> "error hashing chunk"]
             ELSE imtLevel(items, i + 2, Append(newItems, h.val))
        ELSE imtLevel(items, i + 2, Append(newItems, items[i]))

\* The outer loop of leanPoseidonIMT.
RECURSIVE imtLoop(_)
imtLoop(items) ==
    LET level == imtLevel(items, 1, <<>>)
    IN  IF Len(items) > 1
        THEN IF level.err # "" THEN Fail(level.err) ELSE imtLoop(level.val)
        ELSE Ok(items[1])

\* A leanPoseidonIMT whose root of no input is zero.
leanPoseidonIMTOfNothing(inputs) ==
    IF Len(inputs) = 0 THEN Ok(Num(Pos(<<>>))) ELSE imtLoop(inputs)
leanPoseidonIMT(inputs) ==
    IF Len(inputs) = 0 THEN Fail("at least one input is required")
    ELSE imtLoop(inputs)

\* The loop of computeContentID over the sorted keys; appendHashes is the
\* step that follows the hash of the value.
RECURSIVE allHashesLoop(_, _, _)
appendHashes(data, keys, allHashes, vh) ==
    IF vh.err # "" THEN [val |-> <<>>, err |-> vh.err]
    ELSE allHashesLoop(data, Tail(keys), allHashes \o <<hashString(Head(keys)), vh.val>>)
allHashesLoop(data, keys, allHashes) ==
    IF keys = <<>> THEN [val |-> allHashes, err |-> ""]
    ELSE appendHashes(data, keys, allHashes, Hash(data[Head(keys)]))

\* computeContentID; iter is the order in which the range loop yields the
\* keys.  contentIDOfHashes is its part after the loop.
contentIDOfHashes(allHashes) ==
    IF allHashes.err = "panic" THEN Fail("panic")
    ELSE IF allHashes.err # "" THEN Fail("error when hashing pod value")
    ELSE IF leanPoseidonIMT(allHashes.val).err # ""
    THEN Fail("error when computing poseidon IMT")
    ELSE leanPoseidonIMT(allHashes.val)
computeContentID(data, iter) ==
    contentIDOfHashes(allHashesLoop(data, sortStrings(iter), <<>>))

(***************************************************************************)
(* Signing and verifying.  A private key is [id, part]: part is the number *)
(* of leading bytes of the 32 that come from key material id, the others   *)
(* being zero.  The compressed signature of message m under key k is the   *)
(* 64 bytes with sym [kind "sig", key k, msg m]; flip marks one flipped    *)
(* bit (1: in the R half or in a public key, 2: in the S half) and curve   *)
(* says whether the point bytes still decompress.                          *)
(***************************************************************************)
NoPod == [nil |-> TRUE, Signature |-> Text(<<>>), SignerPublicKey |-> Text(<<>>)]
Pod(sig, pk) == [nil |-> FALSE, Signature |-> sig, SignerPublicKey |-> pk]

SigSym(key, msg) == [kind |-> "sig", key |-> key, msg |-> msg, flip |-> 0, curve |-> TRUE]
PubSym(key) == [kind |-> "pub", key |-> key, msg |-> NoFE, flip |-> 0, curve |-> TRUE]
\* The compressed public key of a private key.
PubBytes(key) == SymBytes(32, PubSym(key))

\* hex.Decode(privateKey[:], []byte(privateKeyHex)), its error dropped: the
\* bytes decoded before the first bad character are stored, and storing a
\* 33rd byte is an index out of range.
hexDecodeKey(privateKeyHex) ==
    LET cs  == privateKeyHex.text
        bad == { i \in DOMAIN cs : HexVal(cs[i]) < 0 }
        n   == IF privateKeyHex.enc = "hex" THEN privateKeyHex.data.n
               ELSE (IF bad = {} THEN Len(cs) ELSE MinOf(bad) - 1) \div 2
    IN  IF n > 32 THEN [val |-> NoSym.key, err |-> "panic"]
        ELSE [val |-> [id |-> IF privateKeyHex.data.sym.kind = "priv"
                              THEN privateKeyHex.data.sym.key.id ELSE 0,
                       part |-> n],
              err |-> ""]

\* PrivateKey.SignPoseidon: Poseidon over R, A and the message must succeed.
SignPoseidon(privateKey, msg) ==
    IF ~CheckBigIntInField(msg)
    THEN [val |-> NoBytes, err |-> "inputs values not inside Finite Field"]
    ELSE [val |-> SymBytes(64, SigSym(privateKey, msg)), err |-> ""]

\* SignatureComp.Decompress: the R half must be a curve point.
SignatureDecompress(b) ==
    IF b.sym.curve THEN [val |-> b, err |-> ""]
    ELSE [val |-> NoBytes, err |-> "babyjub: point decompression failed"]

ErrVerifyPoseidonFailed == "verifyPoseidon failed"

\* A VerifyPoseidon that looks at who signed what, not at the bytes.
VerifyPoseidonOfSigner(publicKey, msg, signature) ==
    IF signature.sym.kind = "sig" /\ signature.sym.msg = msg
       /\ publicKey.sym.kind = "pub" /\ publicKey.sym.key = signature.sym.key
    THEN "" ELSE "verifyPoseidon failed"

\* PublicKey.VerifyPoseidon: accepts exactly the signature made for this
\* message by the private key of this public key.
VerifyPoseidon(publicKey, msg, signature) ==
    IF ~CheckBigIntInField(msg) THEN "inputs values not inside Finite Field"
    ELSE IF /\ signature.sym = SigSym(signature.sym.key, msg)
            /\ publicKey.sym = PubSym(signature.sym.key)
         THEN ""
         ELSE ErrVerifyPoseidonFailed

\* signPod; signContentID is its part after computeContentID.
signContentID(privateKey, contentID) ==
    LET sig == SignPoseidon(privateKey, contentID.val)
    IN  IF contentID.err = "panic" THEN [val |-> NoPod, err |-> "panic"]
        ELSE IF contentID.err # "" THEN [val |-> NoPod, err |-> "failed computing content ID"]
        ELSE IF sig.err # "" THEN [val |-> NoPod, err |-> "failed signing content ID"]
        ELSE [val |-> Pod(noPadB64Encode(sig.val),
                          noPadB64Encode(PubBytes(privateKey))),
              err |-> ""]
signPod(privateKey, ents, iter) ==
    signContentID(privateKey, computeContentID(ents, iter))

\* CreatePod; signWithKey is its part after hex.Decode.
signWithKey(privateKey, ents, iter) ==
    IF privateKey.err # "" THEN [val |-> NoPod, err |-> privateKey.err]
    ELSE signPod(privateKey.val, ents, iter)
CreatePod(privateKeyHex, ents, iter) ==
    LET privateKeyBytes == noPadB64DecodeString(privateKeyHex)
    IN  IF StrLen(privateKeyHex) # 64
        THEN IF privateKeyBytes.err # ""
             THEN [val |-> NoPod, err |-> "private key must be 32-byte hex or base64 string"]
             ELSE signWithKey(hexDecodeKey(hexEncodeToString(privateKeyBytes.val)), ents, iter)
        ELSE signWithKey(hexDecodeKey(privateKeyHex), ents, iter)

\* A Verify for which a failed decompression is a plain false.
verifyDecodedLenient(signatureBytes, publicKeyBytes, contentID) ==
    LET err == VerifyPoseidon(publicKeyBytes.val, contentID.val, signatureBytes.val)
    IN  IF signatureBytes.err # "" \/ signatureBytes.val.n # 64
        THEN [ok |-> FALSE, err |-> "failed to decode signature"]
        ELSE IF publicKeyBytes.err # "" \/ publicKeyBytes.val.n # 32
        THEN [ok |-> FALSE, err |-> "failed to decode signer public key"]
        ELSE IF contentID.err = "panic" THEN [ok |-> FALSE, err |-> "panic"]
        ELSE IF contentID.err # "" THEN [ok |-> FALSE, err |-> "failed computing content ID"]
        ELSE IF SignatureDecompress(signatureBytes.val).err # ""
                \/ PublicKeyDecompress(publicKeyBytes.val).err # ""
        THEN [ok |-> FALSE, err |-> ""]
        ELSE IF err # ""
        THEN IF err # ErrVerifyPoseidonFailed
             THEN [ok |-> FALSE, err |-> "failed to verify signature"]
             ELSE [ok |-> FALSE, err |-> ""]
        ELSE [ok |-> TRUE, err |-> ""]
\* Pod.Verify; verifyDecoded is its part after the two DecodeBytes calls and
\* computeContentID.
verifyDecoded(signatureBytes, publicKeyBytes, contentID) ==
    LET err == VerifyPoseidon(publicKeyBytes.val, contentID.val, signatureBytes.val)
    IN  IF signatureBytes.err # "" \/ signatureBytes.val.n # 64
        THEN [ok |-> FALSE, err |-> "failed to decode signature"]
        ELSE IF publicKeyBytes.err # "" \/ publicKeyBytes.val.n # 32
        THEN [ok |-> FALSE, err |-> "failed to decode signer public key"]
        ELSE IF contentID.err = "panic" THEN [ok |-> FALSE, err |-> "panic"]
        ELSE IF contentID.err # "" THEN [ok |-> FALSE, err |-> "failed computing content ID"]
        ELSE IF SignatureDecompress(signatureBytes.val).err # ""
        THEN [ok |-> FALSE, err |-> "failed to decompress signature"]
        ELSE IF PublicKeyDecompress(publicKeyBytes.val).err # ""
        THEN [ok |-> FALSE, err |-> "failed to decompress public key"]
        ELSE IF err # ""
        THEN IF err # ErrVerifyPoseidonFailed
             THEN [ok |-> FALSE, err |-> "failed to verify signature"]
             ELSE [ok |-> FALSE, err |-> ""]
        ELSE [ok |-> TRUE, err |-> ""]
Verify(p, ents, iter) ==
    verifyDecoded(DecodeBytes(p.Signature, 64), DecodeBytes(p.SignerPublicKey, 32),
                  computeContentID(ents, iter))

(***************************************************************************)
(* The JSON codec.                                                         *)
(*                                                                         *)
(* A JSON text is kept by its structure, which determines its bytes as     *)
(* encoding/json writes them: null, a boolean, a number by its literal, a  *)
(* string by its bytes, an object by its members in the order written.     *)
(***************************************************************************)
NoJson == [kind |-> "none", bool |-> FALSE, text |-> Text(<<>>), members |-> <<>>]
\* null ("null"), a boolean ("bool"), a number ("number") or a string ("string").
JAtom(kind, b, text) == [NoJson EXCEPT !.kind = kind, !.bool = b, !.text = text]
JObject(members) == [NoJson EXCEPT !.kind = "object", !.members = members]
\* The bytes of the words that are JSON keys: the kinds, and the field names.
KeyBytes ==
    [ null |-> <<110, 117, 108, 108>>,
      string |-> <<115, 116, 114, 105, 110, 103>>,
      bytes |-> <<98, 121, 116, 101, 115>>,
      cryptographic |-> <<99, 114, 121, 112, 116, 111, 103, 114, 97, 112, 104, 105,
                99>>,
      int |-> <<105, 110, 116>>,
      boolean |-> <<98, 111, 111, 108, 101, 97, 110>>,
      eddsa_pubkey |-> <<101, 100, 100, 115, 97, 95, 112, 117, 98, 107, 101, 121>>,
      date |-> <<100, 97, 116, 101>>,
      type |-> <<116, 121, 112, 101>>,
      value |-> <<118, 97, 108, 117, 101>>,
      entries |-> <<101, 110, 116, 114, 105, 101, 115>>,
      signature |-> <<115, 105, 103, 110, 97, 116, 117, 114, 101>>,
      signerPublicKey |-> <<115, 105, 103, 110, 101, 114, 80, 117, 98, 108, 105, 99,
                75, 101, 121>> ]
\* json.Marshal(map[string]T{key: payload})
JTagged(key, payload) == JObject(<<[key |-> KeyBytes[key], val |-> payload]>>)

\* json.Marshal of a string: a byte that cannot be part of UTF-8 (0xF8 to
\* 0xFF) is written as U+FFFD, which reads back as the bytes EF BF BD.
RECURSIVE coerceUTF8(_)
coerceUTF8(cs) ==
    IF cs = <<>> THEN <<>>
    ELSE (IF cs[1] >= 248 THEN <<239, 191, 189>> ELSE <<cs[1]>>) \o coerceUTF8(Tail(cs))
jsonString(s) ==
    JAtom("string", FALSE, IF s.enc = "text" THEN Text(coerceUTF8(s.text)) ELSE s)

\* The proleptic Gregorian date <<year, month, day>> of a day since the
\* epoch, as Time.Date computes it.
civilFromDays(day) ==
    LET z   == day + 719468
        era == z \div 146097
        doe == z - era * 146097
        yoe == (doe - (doe \div 1460) + (doe \div 36524) - (doe \div 146096)) \div 365
        doy == doe - (365 * yoe + (yoe \div 4) - (yoe \div 100))
        mp  == (5 * doy + 2) \div 153
        m   == IF mp < 10 THEN mp + 3 ELSE mp - 9
    IN  <<yoe + era * 400 + (IF m <= 2 THEN 1 ELSE 0), m, doy - ((153 * mp + 2) \div 5) + 1>>

\* The day since the epoch of a date, as time.Date computes it.
daysFromCivil(year, month, d) ==
    LET y   == IF month <= 2 THEN year - 1 ELSE year
        era == y \div 400
        yoe == y - era * 400
        doy == ((153 * (IF month > 2 THEN month - 3 ELSE month + 9) + 2) \div 5) + d - 1
    IN  era * 146097 + yoe * 365 + (yoe \div 4) - (yoe \div 100) + doy - 719468

\* appendInt of package time: x in decimal, zero-padded to width, a negative
\* number with a minus sign in front.
RECURSIVE appendInt(_, _)
appendInt(x, width) ==
    IF x < 0 THEN <<45>> \o appendInt(-x, width)
    ELSE IF x < 10 /\ width <= 1 THEN <<x + 48>>
    ELSE Append(appendInt(x \div 10, width - 1), (x % 10) + 48)

\* Time.UTC().Format("2006-01-02T15:04:05.000Z"): the year with at least four
\* digits, the fraction cut to milliseconds.
TimeFormat(t) ==
    LET date == civilFromDays(t.day)
        secs == t.ms \div 1000
    IN  appendInt(date[1], 4) \o <<45>> \o appendInt(date[2], 2) \o <<45>>
          \o appendInt(date[3], 2) \o <<84>> \o appendInt(secs \div 3600, 2) \o <<58>>
          \o appendInt((secs \div 60) % 60, 2) \o <<58>> \o appendInt(secs % 60, 2)
          \o <<46>> \o appendInt(t.ms % 1000, 3) \o <<90>>

\* The number written by decimal digit characters (a few of them).
RECURSIVE atoi(_)
atoi(cs) == IF cs = <<>> THEN 0 ELSE 10 * atoi(SubSeq(cs, 1, Len(cs) - 1)) + cs[Len(cs)] - 48

\* time.Parse(time.RFC3339, s) for a string ending in Z: four digits of
\* year, two of month, day, hour, minute and second, then an optional
\* fraction of which nine digits count; the fields must be in range and the
\* day must exist.
TimeParse(cs) ==
    LET n     == Len(cs)
        num(a, b) == atoi(SubSeq(cs, a, b))
        frac  == SubSeq(cs, 21, IF n - 1 < 29 THEN n - 1 ELSE 29)
        nanos == atoi(frac \o [i \in 1..(9 - Len(frac)) |-> 48])
        year  == num(1, 4)
        month == num(6, 7)
        d     == num(9, 10)
        leap  == year % 4 = 0 /\ (year % 100 # 0 \/ year % 400 = 0)
        dim   == IF month = 2 THEN (IF leap THEN 29 ELSE 28)
                 ELSE IF month \in {4, 6, 9, 11} THEN 30 ELSE 31
        shape == /\ n >= 20
                 /\ cs[n] = 90
                 /\ cs[5] = 45 /\ cs[8] = 45 /\ cs[11] = 84 /\ cs[14] = 58 /\ cs[17] = 58
                 /\ \A i \in {1, 2, 3, 4, 6, 7, 9, 10, 12, 13, 15, 16, 18, 19} : IsDigit(cs[i])
                 /\ n > 20 => (/\ cs[20] = 46
                               /\ n >= 22
                               /\ \A i \in 21..(n - 1) : IsDigit(cs[i]))
    IN  IF ~shape THEN [val |-> ZeroTime, err |-> "parsing time: cannot parse"]
        ELSE IF month \notin 1..12 \/ d \notin 1..dim \/ num(12, 13) > 23
                \/ num(15, 16) > 59 \/ num(18, 19) > 59
        THEN [val |-> ZeroTime, err |-> "parsing time: out of range"]
        ELSE [val |-> Time(daysFromCivil(year, month, d),
                           (num(12, 13) * 3600 + num(15, 16) * 60 + num(18, 19)) * 1000
                             + (nanos \div 1000000),
                           nanos % 1000000, TRUE),
              err |-> ""]

\* a divided by a small d: the quotient (with leading zeros) and the remainder.
RECURSIVE MagDivMod(_, _)
MagDivMod(a, d) ==
    IF a = <<>> THEN [q |-> <<>>, r |-> 0]
    ELSE LET p == MagDivMod(SubSeq(a, 1, Len(a) - 1), d)
         IN  [q |-> Append(p.q, (p.r * Base + a[Len(a)]) \div d),
              r |-> (p.r * Base + a[Len(a)]) % d]

\* The decimal digit characters of a magnitude, four at a time; none for
\* zero.
RECURSIVE decimalDigits(_)
decimalDigits(mag) ==
    IF mag = <<>> THEN <<>>
    ELSE IF Strip(MagDivMod(mag, 10000).q) = <<>> THEN appendInt(MagDivMod(mag, 10000).r, 1)
    ELSE decimalDigits(Strip(MagDivMod(mag, 10000).q)) \o appendInt(MagDivMod(mag, 10000).r, 4)

\* big.Int.String, strconv.FormatInt(x, 10), and json.Marshal of a float64
\* that is a whole number below 10^21: the decimal literal.
BigString(z) ==
    IF z.mag = <<>> THEN <<48>>
    ELSE (IF z.neg THEN <<45>> ELSE <<>>) \o decimalDigits(z.mag)

\* strings.ToLower(z.Text(16)) of a number that is not negative.
BigText16(z) ==
    LET nibble(i) == (z.mag[(i + 3) \div 4] \div (CASE i % 4 = 1 -> 4096 [] i % 4 = 2 -> 256
                                                    [] i % 4 = 3 -> 16 [] OTHER -> 1)) % 16
        first == MinOf({ i \in 1..(4 * Len(z.mag)) : nibble(i) # 0 })
    IN  IF z.mag = <<>> THEN <<48>>
        ELSE [i \in 1..(4 * Len(z.mag) - first + 1) |->
                IF nibble(i + first - 1) < 10 THEN nibble(i + first - 1) + 48
                ELSE nibble(i + first - 1) + 87]

\* A formatBigIntToString that writes every number in decimal.
formatBigIntToDecimal(z) == BigString(z)
\* formatBigIntToString
formatBigIntToString(z) ==
    IF z.neg THEN BigString(z) ELSE <<48, 120>> \o BigText16(z)

\* A range test that leaves out its two ends.
fitsInSafeJSRangeOpen(z) ==
    /\ Cmp(z, Neg(<<31, 65535, 65535, 65535>>)) > 0
    /\ Cmp(z, Pos(<<31, 65535, 65535, 65535>>)) < 0
\* fitsInSafeJSRange: |z| <= 2^53 - 1
fitsInSafeJSRange(z) ==
    /\ Cmp(z, Neg(<<31, 65535, 65535, 65535>>)) >= 0
    /\ Cmp(z, Pos(<<31, 65535, 65535, 65535>>)) <= 0

\* PodValue.MarshalJSON.  fitsInSafeJSRange on a nil BigVal dereferences nil.
MarshalJSON(p) ==
    CASE p.ValueType = PodNullValue -> [val |-> JAtom("null", FALSE, Text(<<>>)), err |-> ""]
      [] p.ValueType = PodBooleanValue -> [val |-> JAtom("bool", p.BoolVal, Text(<<>>)), err |-> ""]
      [] p.ValueType = PodStringValue -> [val |-> jsonString(p.StringVal), err |-> ""]
      [] p.ValueType = PodBytesValue ->
           [val |-> JTagged("bytes", jsonString(noPadB64Encode(p.BytesVal))), err |-> ""]
      [] p.ValueType = PodEdDSAPubkeyValue ->
           [val |-> JTagged("eddsa_pubkey", jsonString(p.StringVal)), err |-> ""]
      [] p.ValueType = PodDateValue ->
           [val |-> JTagged("date", jsonString(Text(TimeFormat(p.TimeVal)))), err |-> ""]
      [] p.ValueType = PodCryptographicValue ->
           IF p.BigVal.nil THEN [val |-> NoJson, err |-> "panic"]
           ELSE IF fitsInSafeJSRange(p.BigVal)
           THEN [val |-> JTagged("cryptographic", JAtom("number", FALSE, Text(BigString(Int64(p.BigVal))))),
                 err |-> ""]
           ELSE [val |-> JTagged("cryptographic",
                                 jsonString(Text(formatBigIntToString(p.BigVal)))),
                 err |-> ""]
      [] p.ValueType = PodIntValue ->
           IF p.BigVal.nil THEN [val |-> NoJson, err |-> "nil big.Int in PodIntValue"]
           ELSE IF fitsInSafeJSRange(p.BigVal)
           THEN [val |-> JAtom("number", FALSE, Text(BigString(Int64(p.BigVal)))), err |-> ""]
           ELSE [val |-> JTagged("int", jsonString(Text(formatBigIntToString(p.BigVal)))),
                 err |-> ""]
      [] OTHER -> [val |-> NoJson, err |-> "unknown PodValueType"]

\* parseBigIntFromString: decimal, or hex after 0x or 0X.
parseBigIntFromString(s) ==
    LET cs  == s.text
        hex == Len(cs) >= 2 /\ cs[1] = 48 /\ cs[2] \in {120, 88}
        z   == IF hex THEN SetString(SubSeq(cs, 3, Len(cs)), 16) ELSE SetString(cs, 10)
    IN  IF ~z.ok
        THEN [val |-> NilBig,
              err |-> IF hex THEN "invalid hex in BigInt string"
                      ELSE "invalid decimal in BigInt string"]
        ELSE [val |-> z.val, err |-> ""]

\* A JSON number read as float64 and cast by int64(val): the whole number,
\* and whether float64 of it is val again.  The literal has no exponent, and
\* the result is exact for magnitudes up to 2^53, where the numbers written
\* by MarshalJSON lie.
int64OfFloat(literal) ==
    LET dots  == { i \in DOMAIN literal : literal[i] = 46 }
        whole == IF dots = {} THEN literal ELSE SubSeq(literal, 1, MinOf(dots) - 1)
    IN  [val |-> SetString(whole, 10).val,
         same |-> \A i \in DOMAIN literal : (dots # {} /\ i > MinOf(dots)) => literal[i] = 48]

\* parseBigIntFromJSON
parseBigIntFromJSON(v) ==
    CASE v.kind = "number" ->
           IF ~int64OfFloat(v.text.text).same
           THEN [val |-> int64OfFloat(v.text.text).val,
                 err |-> "non-integer float cannot be parsed to bigint"]
           ELSE [val |-> int64OfFloat(v.text.text).val, err |-> ""]
      [] v.kind = "string" -> parseBigIntFromString(v.text)
      [] OTHER -> [val |-> NilBig, err |-> "invalid numeric encoding in 'int'/'cryptographic'"]

\* A lookup that gives the first member of the object whatever the key.
memberFirst(v, key) ==
    IF v.members = <<>> THEN [found |-> FALSE, val |-> NoJson]
    ELSE [found |-> TRUE, val |-> v.members[1].val]
\* The member of a JSON object under a key (the last one when the key
\* repeats), as val[key] of the decoded map gives it.
member(v, key) ==
    LET at == { i \in DOMAIN v.members : v.members[i].key = key }
    IN  IF at = {} THEN [found |-> FALSE, val |-> NoJson]
        ELSE [found |-> TRUE, val |-> v.members[CHOOSE i \in at : \A j \in at : j <= i].val]

\* The switch of PodValue.UnmarshalJSON on the kind of a tagged object: the
\* value before Check, or the error.
unmarshalTagged(jsonType, jsonValue) ==
    CASE jsonType = KeyBytes.string ->
           IF jsonValue.kind # "string"
           THEN [val |-> PodValue(PodStringValue), err |-> "invalid 'string' encoding"]
           ELSE [val |-> [PodValue(PodStringValue) EXCEPT !.StringVal = jsonValue.text],
                 err |-> ""]
      [] jsonType = KeyBytes.boolean ->
           IF jsonValue.kind # "bool"
           THEN [val |-> PodValue(PodBooleanValue), err |-> "invalid 'boolean' encoding"]
           ELSE [val |-> [PodValue(PodBooleanValue) EXCEPT !.BoolVal = jsonValue.bool],
                 err |-> ""]
      [] jsonType = KeyBytes.int ->
           [val |-> [PodValue(PodIntValue) EXCEPT !.BigVal = parseBigIntFromJSON(jsonValue).val],
            err |-> parseBigIntFromJSON(jsonValue).err]
      [] jsonType = KeyBytes.cryptographic ->
           [val |-> [PodValue(PodCryptographicValue)
                       EXCEPT !.BigVal = parseBigIntFromJSON(jsonValue).val],
            err |-> parseBigIntFromJSON(jsonValue).err]
      [] jsonType = KeyBytes.bytes ->
           IF jsonValue.kind # "string"
           THEN [val |-> PodValue(PodBytesValue), err |-> "invalid 'bytes' encoding"]
           ELSE IF DecodeBase64Bytes(jsonValue.text).err # ""
           THEN [val |-> PodValue(PodBytesValue), err |-> "invalid base64 for 'bytes'"]
           ELSE [val |-> [PodValue(PodBytesValue)
                            EXCEPT !.BytesVal = DecodeBase64Bytes(jsonValue.text).val],
                 err |-> ""]
      [] jsonType = KeyBytes.eddsa_pubkey ->
           IF jsonValue.kind # "string"
           THEN [val |-> PodValue(PodEdDSAPubkeyValue),
                 err |-> "invalid 'eddsa_pubkey' encoding"]
           ELSE [val |-> [PodValue(PodEdDSAPubkeyValue) EXCEPT !.StringVal = jsonValue.text],
                 err |-> ""]
      [] jsonType = KeyBytes.date ->
           IF jsonValue.kind # "string"
           THEN [val |-> PodValue(PodDateValue), err |-> "invalid 'date' encoding"]
           ELSE IF jsonValue.text.text = <<>>
                   \/ jsonValue.text.text[Len(jsonValue.text.text)] # 90
           THEN [val |-> PodValue(PodDateValue), err |-> "date must be encoded in UTC"]
           ELSE IF TimeParse(jsonValue.text.text).err # ""
           THEN [val |-> PodValue(PodDateValue), err |-> "invalid date"]
           ELSE [val |-> [PodValue(PodDateValue)
                            EXCEPT !.TimeVal = TimeParse(jsonValue.text.text).val],
                 err |-> ""]
      [] jsonType = KeyBytes.null ->
           IF jsonValue.kind # "null"
           THEN [val |-> PodValue(""), err |-> "invalid 'null' encoding"]
           ELSE [val |-> PodValue(PodNullValue), err |-> ""]
      [] OTHER -> [val |-> PodValue(""), err |-> "unknown key in object PodValue"]

\* The keys of the map json.Unmarshal makes of an object: len(val) counts a
\* key written twice once, and its last value stands.
keysOf(data) == { data.members[i].key : i \in DOMAIN data.members }

\* PodValue.UnmarshalJSON into a zero PodValue; checked is its last step,
\* return p.Check().
checked(r) == IF r.err # "" THEN r ELSE [val |-> r.val, err |-> Check(r.val)]
UnmarshalJSON(data) ==
    CASE data.kind = "null" -> checked([val |-> PodValue(PodNullValue), err |-> ""])
      [] data.kind = "bool" ->
           checked([val |-> [PodValue(PodBooleanValue) EXCEPT !.BoolVal = data.bool],
                    err |-> ""])
      [] data.kind = "number" ->
           checked([val |-> [PodValue(PodIntValue)
                               EXCEPT !.BigVal = int64OfFloat(data.text.text).val],
                    err |-> IF int64OfFloat(data.text.text).same THEN ""
                            ELSE "got a floating (non-integer) JSON number"])
      [] data.kind = "string" ->
           checked([val |-> [PodValue(PodStringValue) EXCEPT !.StringVal = data.text],
                    err |-> ""])
      [] data.kind = "object" ->
           IF Cardinality(keysOf(data)) = 1
           THEN checked(unmarshalTagged(data.members[Len(data.members)].key,
                                        data.members[Len(data.members)].val))
           ELSE IF ~member(data, KeyBytes.type).found \/ ~member(data, KeyBytes.value).found
                   \/ member(data, KeyBytes.type).val.kind # "string"
           THEN [val |-> PodValue(""), err |-> "invalid PodValue"]
           ELSE checked(unmarshalTagged(member(data, KeyBytes.type).val.text.text,
                                        member(data, KeyBytes.value).val))
      [] OTHER -> [val |-> PodValue(""), err |-> "invalid PodValue"]

\* json.Marshal of PodEntries: the members in the byte-wise order of the
\* names, each value written by MarshalJSON.
jsonMarshalEntries(ents) ==
    LET keys == sortStrings(CHOOSE s \in Perms(DOMAIN ents) : TRUE)
        errs == { MarshalJSON(ents[n]).err : n \in DOMAIN ents } \ {""}
    IN  IF "panic" \in errs THEN [val |-> NoJson, err |-> "panic"]
        ELSE IF errs # {} THEN [val |-> NoJson, err |-> "json: error calling MarshalJSON"]
        ELSE [val |-> JObject([i \in 1..Len(keys) |->
                                 [key |-> coerceUTF8(keys[i]),
                                  val |-> MarshalJSON(ents[keys[i]]).val]]),
              err |-> ""]

\* A PodEntries.UnmarshalJSON that returns what it decoded without Check.
EntriesUnmarshalJSONUnchecked(data) ==
    LET names == { data.members[i].key : i \in DOMAIN data.members }
    IN  IF data.kind # "object" \/ \E i \in DOMAIN data.members :
                                      UnmarshalJSON(data.members[i].val).err # ""
        THEN [val |-> <<>>, err |-> "json: error"]
        ELSE [val |-> [n \in names |-> UnmarshalJSON(member(data, n).val).val], err |-> ""]
\* PodEntries.UnmarshalJSON: the default decoding of a map, every value by
\* PodValue.UnmarshalJSON, then Check.
EntriesUnmarshalJSON(data) ==
    LET names == { data.members[i].key : i \in DOMAIN data.members }
        deserialized == [n \in names |-> UnmarshalJSON(member(data, n).val).val]
    IN  CASE data.kind = "null" -> [val |-> <<>>, err |-> "unmarshalled POD entries are nil"]
          [] data.kind = "object" ->
               IF \E i \in DOMAIN data.members : UnmarshalJSON(data.members[i].val).err # ""
               THEN [val |-> <<>>, err |-> "json: error calling UnmarshalJSON"]
               ELSE [val |-> deserialized, err |-> EntriesCheck(deserialized)]
          [] OTHER -> [val |-> <<>>, err |-> "json: cannot unmarshal into Go value"]

\* json.Marshal of a Pod: the fields in the order of the struct, under the
\* names of their tags.
jsonMarshalPod(p, ents) ==
    IF jsonMarshalEntries(ents).err # "" THEN jsonMarshalEntries(ents)
    ELSE [val |-> JObject(<<[key |-> KeyBytes.entries, val |-> jsonMarshalEntries(ents).val],
                            [key |-> KeyBytes.signature, val |-> jsonString(p.Signature)],
                            [key |-> KeyBytes.signerPublicKey,
                             val |-> jsonString(p.SignerPublicKey)]>>),
          err |-> ""]

\* The map a PodEntries holds after its UnmarshalJSON returned r: what was
\* decoded as soon as *p was assigned, also when Check then failed; the map
\* of before when the decoding itself failed.
entriesAfter(r, ents) ==
    IF r.err \in {"json: error calling UnmarshalJSON", "json: cannot unmarshal into Go value"}
    THEN ents ELSE r.val

\* The place of the last member of a JSON object under a key, 0 without one.
memberAt(v, key) ==
    LET at == { i \in DOMAIN v.members : v.members[i].key = key }
    IN  IF at = {} THEN 0 ELSE CHOOSE i \in at : \A j \in at : j <= i

\* json.Unmarshal into a Pod p holding the entries ents: a field is set
\* from the member of its name, and is left as it is without one; members of
\* other names are skipped.  The error of PodEntries.UnmarshalJSON ends the
\* decoding, the members after it unread; a member of the wrong type for a
\* string field is skipped and reported at the end.
jsonUnmarshalPod(data, p, ents) ==
    LET es == member(data, KeyBytes.entries)
        sg == member(data, KeyBytes.signature)
        pk == member(data, KeyBytes.signerPublicKey)
        r  == EntriesUnmarshalJSON(es.val)
        failed == es.found /\ r.err # ""
        read(key) == ~failed \/ memberAt(data, key) < memberAt(data, KeyBytes.entries)
        field(m, key, old) ==
            IF m.found /\ m.val.kind = "string" /\ read(key) THEN m.val.text ELSE old
    IN  CASE data.kind = "null" -> [entries |-> ents, pod |-> p, err |-> ""]
          [] data.kind = "object" ->
               [entries |-> IF es.found THEN entriesAfter(r, ents) ELSE ents,
                pod |-> Pod(field(sg, KeyBytes.signature, p.Signature),
                            field(pk, KeyBytes.signerPublicKey, p.SignerPublicKey)),
                err |-> IF failed THEN r.err
                        ELSE IF \E m \in {sg, pk} : m.found /\ m.val.kind \notin {"string", "null"}
                        THEN "json: cannot unmarshal into Go struct field"
                        ELSE ""]
          [] OTHER -> [entries |-> ents, pod |-> p,
                       err |-> "json: cannot unmarshal into Go value of type pod.Pod"]

(***************************************************************************)
(* Inputs.                                                                 *)
(***************************************************************************)
\* The names A, AB and B, and "bad name".
Names == { <<65>>, <<65, 66>>, <<66>>, <<98, 97, 100, 32, 110, 97, 109, 101>> }

\* The private key of the tests.
TestKey == [id |-> 1, part |-> 32]
\* 32 bytes that are no curve point.
OffCurveBytes == SymBytes(32, [PubSym(TestKey) EXCEPT !.flip = 1, !.curve = FALSE])

\* The PodValue of a kind with its payload, as the constructors and struct
\* literals fill its fields: the characters of a string, the string of a
\* public key, the bytes, the number, the boolean or the time.
Value(t, x) ==
    CASE t = PodStringValue -> [PodValue(t) EXCEPT !.StringVal = Text(x)]
      [] t = PodEdDSAPubkeyValue -> [PodValue(t) EXCEPT !.StringVal = x]
      [] t = PodBytesValue -> [PodValue(t) EXCEPT !.BytesVal = RawBytes(x)]
      [] t \in {PodIntValue, PodCryptographicValue} -> [PodValue(t) EXCEPT !.BigVal = x]
      [] t = PodBooleanValue -> [PodValue(t) EXCEPT !.BoolVal = x]
      [] t = PodDateValue -> [PodValue(t) EXCEPT !.TimeVal = x]

\* Values of which a map of the inputs holds at most one.  The date is
\* 2025-01-01T00:00:00Z.
SpecialValues ==
    { Value(PodBooleanValue, TRUE),
      Value(PodStringValue, <<120>>),
      Value(PodBytesValue, <<120>>),
      Value(PodIntValue, Neg(<<7>>)),
      Value(PodCryptographicValue, Pos(<<1>>)),
      Value(PodDateValue, Time(20089, 0, 0, TRUE)),
      Value(PodEdDSAPubkeyValue, Encoded("b64", PubBytes(TestKey))),
      Value(PodEdDSAPubkeyValue, Encoded("hex", OffCurveBytes)),
      Value(PodCryptographicValue, Neg(<<1>>)),
      Value(PodIntValue, NilBig),
      PodValue("") }

\* Values for the codec beside these: dates at the bounds, at the ends of the
\* years 0000 to 9999, and with a part below the millisecond; numbers around
\* 2^53 and at the bounds; a string that is not UTF-8.
CodecValues ==
    SpecialValues \cup
    { Value(PodDateValue, PodDateMax),
      Value(PodDateValue, PodDateMin),
      Value(PodDateValue, Time(2932896, 86399999, 0, TRUE)),
      Value(PodDateValue, Time(-719528, 0, 0, TRUE)),
      Value(PodDateValue, Time(0, 123000, 456, TRUE)),
      Value(PodIntValue, Pos(<<31, 65535, 65535, 65535>>)),
      Value(PodIntValue, Pos(<<32, 0, 0, 0>>)),
      Value(PodIntValue, Neg(<<32, 0, 0, 0>>)),
      Value(PodIntValue, PodIntMin),
      Value(PodIntValue, PodIntMax),
      Value(PodCryptographicValue, Pos(<<32, 0, 0, 0>>)),
      Value(PodCryptographicValue, PodCryptographicMax),
      Value(PodCryptographicValue, Pos(<<>>)),
      Value(PodStringValue, <<255>>),
      Value(PodStringValue, <<>>),
      Value(PodBytesValue, <<>>),
      Value(PodBytesValue, <<1, 2, 3>>),
      Value(PodBooleanValue, FALSE) }

\* The maps of up to k entries: any of them null or int 1, at most one of
\* them one of the special values.
EntriesUpTo(k, special) ==
    UNION { { e \in [S -> { PodValue(PodNullValue), Value(PodIntValue, Pos(<<1>>)) } \cup special] :
                Cardinality({ n \in S : e[n] \in special }) <= 1 }
            : S \in { T \in SUBSET Names : Cardinality(T) <= k } }

\* Private keys as CreatePod receives them: 32 bytes in hex, in Base64
\* without and with padding; 31 bytes in Base64 and in hex.
PrivBytes(n) == SymBytes(n, [kind |-> "priv", key |-> [id |-> 1, part |-> n],
                             msg |-> NoFE, flip |-> 0, curve |-> FALSE])
KeyStrings ==
    { Encoded("hex", PrivBytes(32)), Encoded("b64", PrivBytes(32)),
      Encoded("b64pad", PrivBytes(32)), Encoded("b64", PrivBytes(31)),
      Encoded("hex", PrivBytes(31)) }

\* Strings a caller may put into Pod.Signature: a signature of another key
\* in hex, 64 bytes whose R is no curve point, 63 bytes, and "!!".
SignatureStrings ==
    { Encoded("hex", SymBytes(64, SigSym([id |-> 2, part |-> 32], NoFE))),
      Encoded("hex", SymBytes(64, [SigSym([id |-> 2, part |-> 32], NoFE) EXCEPT !.curve = FALSE])),
      Encoded("b64", SymBytes(63, [SigSym([id |-> 2, part |-> 32], NoFE) EXCEPT !.kind = "junk"])),
      Text(<<33, 33>>) }
\* The signatures of the test key over the entries, when they can be signed.
ValidSignatures(ents) ==
    { signPod(TestKey, ents, iter).val.Signature :
        iter \in { it \in Perms(DOMAIN ents) : signPod(TestKey, ents, it).err = "" } }
\* Strings a caller may put into Pod.SignerPublicKey: the key, another key,
\* no curve point, 31 bytes.
PublicKeyStrings ==
    { Encoded("b64", PubBytes(TestKey)), Encoded("hex", PubBytes([id |-> 2, part |-> 32])),
      Encoded("hex", OffCurveBytes),
      Encoded("b64", SymBytes(31, [PubSym(TestKey) EXCEPT !.kind = "junk", !.curve = FALSE])) }
\* Values a caller may store into an entry of a signed Pod.
TamperValues ==
    { PodValue(PodNullValue),
      Value(PodIntValue, Pos(<<1>>)),
      Value(PodBooleanValue, TRUE),
      Value(PodCryptographicValue, Pos(<<1>>)),
      Value(PodStringValue, <<120>>),
      Value(PodBytesValue, <<120>>),
      Value(PodEdDSAPubkeyValue, Encoded("hex", OffCurveBytes)) }


(***************************************************************************)
(* The state around a Pod: before any call, and the inputs of the calls.   *)
(***************************************************************************)
NoResult == [val |-> NoFE, err |-> "none"]
NoVerify == [ok |-> FALSE, err |-> "none"]
NoTamper == [kind |-> "none", name |-> <<>>, old |-> PodValue(PodNullValue)]
NoSigned == [key |-> Text(<<>>), entries |-> <<>>, cid |-> NoResult]

NoWire == [val |-> NoJson, err |-> "none"]
NoDecoded == [entries |-> <<>>, pod |-> NoPod, err |-> "none"]
NoMade == [val |-> PodValue(""), err |-> "none", by |-> "", arg |-> ZeroTime]
NoGiven == [val |-> NoJson, form |-> "none", payload |-> "none"]
NoParsed == [val |-> PodValue(""), err |-> "none"]

\* The calls that may run beside one another.
MaxCalls == 2
Procs == 1..MaxCalls

\* No Signer has been made.
NoSigner == [nil |-> TRUE, key |-> Text(<<>>), privateKey |-> NoSym.key, err |-> "none"]

\* The frame of a call: the operation, the entries and the Pod it was given,
\* its position, its local variables contentID, signatureBytes and
\* publicKeyBytes, and what it returned.
NoFrame ==
    [op |-> "", pc |-> "idle", entries |-> <<>>, pod |-> NoPod,
     contentID |-> NoResult,
     signatureBytes |-> [val |-> NoBytes, err |-> "none"],
     publicKeyBytes |-> [val |-> NoBytes, err |-> "none"],
     hash |-> NoResult, signed |-> [val |-> NoPod, err |-> "none"], verified |-> NoVerify]
NoCalls == [p \in Procs |-> NoFrame]

\* Nothing has been called yet.
Idle ==
    /\ cid = NoResult
    /\ cidPrev = NoResult
    /\ iterOrder = <<>>
    /\ reordered = FALSE
    /\ signErr = "none"
    /\ signed = NoSigned
    /\ tamper = NoTamper
    /\ verifyRes = NoVerify
    /\ verifyPrev = NoVerify
    /\ wire = NoWire
    /\ decoded = NoDecoded
    /\ rewire = NoWire
    /\ made = NoMade
    /\ written = NoWire
    /\ given = NoGiven
    /\ parsed = NoParsed
    /\ rewritten = NoWire
    /\ signer = NoSigner
    /\ calls = NoCalls

(***************************************************************************)
(* The content-ID specification: computeContentID is called on a map, up   *)
(* to twice, the range loop yielding the keys in any order.                *)
(***************************************************************************)
HashInit ==
    /\ entries \in EntriesUpTo(MaxEntries, SpecialValues)
    /\ pod = NoPod
    /\ Idle

ComputeContentID ==
    /\ cidPrev = NoResult
    /\ signErr = "none"
    /\ \E iter \in Perms(DOMAIN entries) :
         /\ cid' = computeContentID(entries, iter)
         /\ cidPrev' = cid
         /\ reordered' = (cid # NoResult /\ iter # iterOrder)
         /\ iterOrder' = IF cid = NoResult THEN iter ELSE <<>>
    /\ UNCHANGED <<signerVars, valueVars, entries, signVars, codecVars>>

SpecHash == HashInit /\ [][ComputeContentID]_vars

(***************************************************************************)
(* The signing specification: a Pod is made from the entries by CreatePod, *)
(* or filled in by the caller as a struct literal; the caller may then     *)
(* change one thing in it, and Verify is called once.  computeContentID    *)
(* may be called on the entries instead.                                   *)
(***************************************************************************)
createPodReturns(privateKeyHex, r, contentID) ==
    /\ pod' = r.val
    /\ signErr' = r.err
    /\ signed' = IF r.err = ""
                 THEN [key |-> privateKeyHex, entries |-> entries, cid |-> contentID]
                 ELSE [NoSigned EXCEPT !.key = privateKeyHex]
CallCreatePod ==
    /\ signErr = "none"
    /\ cid = NoResult
    /\ \E privateKeyHex \in KeyStrings, iter \in Perms(DOMAIN entries) :
         createPodReturns(privateKeyHex, CreatePod(privateKeyHex, entries, iter),
                          computeContentID(entries, iter))
    /\ UNCHANGED <<signerVars, valueVars, entries, hashVars, tamper, verifyRes, verifyPrev, codecVars>>

\* Pod{Entries: entries, Signature: sig, SignerPublicKey: pk}
BuildPod ==
    /\ signErr = "none"
    /\ cid = NoResult
    /\ \E sig \in SignatureStrings \cup ValidSignatures(entries), pk \in PublicKeyStrings :
         pod' = Pod(sig, pk)
    /\ signErr' = "literal"
    /\ UNCHANGED <<signerVars, valueVars, entries, hashVars, signed, tamper, verifyRes, verifyPrev, codecVars>>

Untouched ==
    /\ signErr = ""
    /\ tamper = NoTamper
    /\ verifyRes = NoVerify

\* pod.Entries[name] = v; signPod stored the caller's map in the Pod, so
\* this is also entries[name] = v on the map the caller gave to CreatePod.
TamperValue ==
    /\ Untouched
    /\ \E name \in DOMAIN entries, v \in TamperValues :
         /\ v # entries[name]
         /\ entries' = [entries EXCEPT ![name] = v]
         /\ tamper' = [kind |-> "value", name |-> name, old |-> entries[name]]
    /\ UNCHANGED <<signerVars, valueVars, hashVars, pod, signErr, signed, verifyRes, verifyPrev, codecVars>>

\* pod.Entries[newName] = pod.Entries[name]; delete(pod.Entries, name)
TamperName ==
    /\ Untouched
    /\ \E name \in DOMAIN entries, newName \in Names \ DOMAIN entries :
         /\ entries' = [k \in (DOMAIN entries \ {name}) \cup {newName} |->
                          IF k = newName THEN entries[name] ELSE entries[k]]
         /\ tamper' = [kind |-> "name", name |-> name, old |-> entries[name]]
    /\ UNCHANGED <<signerVars, valueVars, hashVars, pod, signErr, signed, verifyRes, verifyPrev, codecVars>>

\* The same string with one bit of the encoded bytes flipped.
FlipBit(s, half, stillPoint) ==
    [s EXCEPT !.data.sym.flip = half, !.data.sym.curve = stillPoint]

\* One bit of the 64 signature bytes is flipped: in the point R (which may
\* then be no curve point any more) or in the scalar S.
FlipSignatureBit ==
    /\ Untouched
    /\ \E half \in {1, 2}, stillPoint \in BOOLEAN :
         /\ half = 2 => stillPoint
         /\ pod' = [pod EXCEPT !.Signature = FlipBit(pod.Signature, half, stillPoint)]
         /\ tamper' = [NoTamper EXCEPT !.kind = "signature bit"]
    /\ UNCHANGED <<signerVars, valueVars, entries, hashVars, signErr, signed, verifyRes, verifyPrev, codecVars>>

\* One bit of the 32 public key bytes is flipped.
FlipPublicKeyBit ==
    /\ Untouched
    /\ \E stillPoint \in BOOLEAN :
         /\ pod' = [pod EXCEPT !.SignerPublicKey =
                                   FlipBit(pod.SignerPublicKey, 1, stillPoint)]
         /\ tamper' = [NoTamper EXCEPT !.kind = "public key bit"]
    /\ UNCHANGED <<signerVars, valueVars, entries, hashVars, signErr, signed, verifyRes, verifyPrev, codecVars>>

\* pod.Signature = s: another string, or the same bytes in another encoding.
SetSignature ==
    /\ Untouched
    /\ \E s \in SignatureStrings \cup { Encoded(enc, pod.Signature.data) : enc \in {"hex", "b64pad"} } :
         /\ pod' = [pod EXCEPT !.Signature = s]
         /\ tamper' = [NoTamper EXCEPT !.kind = "signature"]
    /\ UNCHANGED <<signerVars, valueVars, entries, hashVars, signErr, signed, verifyRes, verifyPrev, codecVars>>

\* pod.SignerPublicKey = s
SetSignerPublicKey ==
    /\ Untouched
    /\ \E s \in (PublicKeyStrings \cup { Encoded(enc, pod.SignerPublicKey.data) :
                                              enc \in {"hex", "b64pad"} })
                  \ {pod.SignerPublicKey} :
         /\ pod' = [pod EXCEPT !.SignerPublicKey = s]
         /\ tamper' = [NoTamper EXCEPT !.kind = "public key"]
    /\ UNCHANGED <<signerVars, valueVars, entries, hashVars, signErr, signed, verifyRes, verifyPrev, codecVars>>

\* pod.Verify(), a first and a second time.
CallVerify ==
    /\ ~pod.nil
    /\ verifyPrev = NoVerify
    /\ \E iter \in Perms(DOMAIN entries) : verifyRes' = Verify(pod, entries, iter)
    /\ verifyPrev' = verifyRes
    /\ UNCHANGED <<signerVars, valueVars, entries, hashVars, pod, signErr, signed, tamper, codecVars>>

SignInit ==
    /\ entries \in EntriesUpTo(MaxSignEntries, SpecialValues)
    /\ pod = NoPod
    /\ Idle

SignNext ==
    \/ ComputeContentID
    \/ CallCreatePod
    \/ BuildPod
    \/ TamperValue
    \/ TamperName
    \/ FlipSignatureBit
    \/ FlipPublicKeyBit
    \/ SetSignature
    \/ SetSignerPublicKey
    \/ CallVerify

SpecSign == SignInit /\ [][SignNext]_vars

(***************************************************************************)
(* The codec specification: the entries alone, or a Pod holding them, are  *)
(* written by json.Marshal, the JSON is read back by json.Unmarshal into a *)
(* new variable, and what was read is written again.                       *)
(***************************************************************************)
MarshalEntries ==
    /\ pod.nil
    /\ wire = NoWire
    /\ wire' = jsonMarshalEntries(entries)
    /\ UNCHANGED <<signerVars, valueVars, entries, hashVars, signVars, decoded, rewire>>

MarshalPod ==
    /\ ~pod.nil
    /\ wire = NoWire
    /\ wire' = jsonMarshalPod(pod, entries)
    /\ UNCHANGED <<signerVars, valueVars, entries, hashVars, signVars, decoded, rewire>>

\* var deserialized PodEntries; json.Unmarshal(wire, &deserialized)
UnmarshalEntries ==
    /\ pod.nil
    /\ wire.err = ""
    /\ decoded = NoDecoded
    /\ decoded' = [entries |-> EntriesUnmarshalJSON(wire.val).val, pod |-> NoPod,
                   err |-> EntriesUnmarshalJSON(wire.val).err]
    /\ UNCHANGED <<signerVars, valueVars, entries, hashVars, signVars, wire, rewire>>

\* pod := &Pod{}; json.Unmarshal(wire, pod)
UnmarshalPod ==
    /\ ~pod.nil
    /\ wire.err = ""
    /\ decoded = NoDecoded
    /\ decoded' = jsonUnmarshalPod(wire.val, Pod(Text(<<>>), Text(<<>>)), <<>>)
    /\ UNCHANGED <<signerVars, valueVars, entries, hashVars, signVars, wire, rewire>>

MarshalDecoded ==
    /\ decoded.err = ""
    /\ rewire = NoWire
    /\ rewire' = IF decoded.pod.nil THEN jsonMarshalEntries(decoded.entries)
                 ELSE jsonMarshalPod(decoded.pod, decoded.entries)
    /\ UNCHANGED <<signerVars, valueVars, entries, hashVars, signVars, wire, decoded>>

\* The entries alone, or in a Pod that signPod made of them.
CodecInit ==
    /\ entries \in EntriesUpTo(MaxCodecEntries, CodecValues)
    /\ Idle
    /\ pod \in {NoPod} \cup { Pod(s, noPadB64Encode(PubBytes(TestKey))) :
                                s \in ValidSignatures(entries) }

CodecNext ==
    \/ MarshalEntries
    \/ MarshalPod
    \/ UnmarshalEntries
    \/ UnmarshalPod
    \/ MarshalDecoded

SpecCodec == CodecInit /\ [][CodecNext]_vars

(***************************************************************************)
(* The entries specification: a JSON text that some writer made, with      *)
(* names and values of every sort, is read by json.Unmarshal into a new    *)
(* PodEntries, and what was read is written again.                          *)
(***************************************************************************)
\* Names of members: those of the maps, and "_a1", "1a" and "".
DocNames == Names \cup { <<95, 97, 49>>, <<49, 97>>, <<>> }
\* Values of members: what MarshalJSON writes of the values of the codec,
\* the invalid ones among them; an int beyond its bound, a fraction, an
\* object without members, an unknown kind, and the form with type and value.
DocValues ==
    { MarshalJSON(v).val : v \in { w \in CodecValues : MarshalJSON(w).err = "" } } \cup
    { JTagged("int", JAtom("string", FALSE, Text(BigString(Pos(Two63))))),
      JAtom("number", FALSE, Text(<<49, 46, 53>>)),
      JObject(<<>>),
      JObject(<<[key |-> <<120>>, val |-> JAtom("number", FALSE, Text(<<49>>))]>>),
      JObject(<<[key |-> KeyBytes.type, val |-> JAtom("string", FALSE, Text(KeyBytes.int))],
                [key |-> KeyBytes.value, val |-> JAtom("number", FALSE, Text(<<49>>))]>>) }
\* The texts: null, a number, objects of no, one and two members, a name
\* twice among them.
Documents ==
    { JAtom("null", FALSE, Text(<<>>)), JAtom("number", FALSE, Text(<<49>>)), JObject(<<>>) } \cup
    { JObject(<<[key |-> k, val |-> v]>>) : k \in DocNames, v \in DocValues } \cup
    { JObject(<<[key |-> <<65>>, val |-> v1], [key |-> k, val |-> v2]>>) :
        v1 \in { JAtom("number", FALSE, Text(<<49>>)),
                 JTagged("cryptographic", JAtom("number", FALSE, Text(<<45, 49>>))),
                 JAtom("null", FALSE, Text(<<>>)) },
        k \in { <<65>>, <<66>>, <<49, 97>> },
        v2 \in DocValues }

\* data := []byte(...)
GiveDocument ==
    /\ pod.nil
    /\ wire = NoWire
    /\ \E d \in Documents : wire' = [val |-> d, err |-> ""]
    /\ UNCHANGED <<signerVars, valueVars, entries, hashVars, signVars, decoded, rewire>>

EntriesInit == entries = <<>> /\ pod = NoPod /\ Idle

EntriesNext ==
    \/ GiveDocument
    \/ UnmarshalEntries
    \/ MarshalDecoded

SpecEntries == EntriesInit /\ [][EntriesNext]_vars

(***************************************************************************)
(* The target specification: json.Unmarshal is called on a PodEntries or   *)
(* on a Pod that already holds something, with a JSON text that is or is   *)
(* not one of a POD.  Here entries and pod are the target before the call  *)
(* (pod is nil when the target is a PodEntries), decoded is the target     *)
(* after it with the error returned.                                       *)
(***************************************************************************)
\* Input that is no JSON object: nothing at all, [], 123, null.
JEmpty == JAtom("empty", FALSE, Text(<<>>))
JArray == JAtom("array", FALSE, Text(<<>>))
NonObjects == { JEmpty, JArray, JAtom("number", FALSE, Text(<<49, 50, 51>>)),
                JAtom("null", FALSE, Text(<<>>)) }
\* Texts of entries: {}, {"A":1}, {"B":null}, {"A":true,"B":1}, and with an
\* illegal name, with an int beyond its bound.
EntryDocs ==
    { JObject(<<>>),
      JObject(<<[key |-> <<65>>, val |-> JAtom("number", FALSE, Text(<<49>>))]>>),
      JObject(<<[key |-> <<66>>, val |-> JAtom("null", FALSE, Text(<<>>))]>>),
      JObject(<<[key |-> <<65>>, val |-> JAtom("bool", TRUE, Text(<<>>))],
                [key |-> <<66>>, val |-> JAtom("number", FALSE, Text(<<49>>))]>>),
      JObject(<<[key |-> <<49, 97>>, val |-> JAtom("null", FALSE, Text(<<>>))]>>),
      JObject(<<[key |-> <<65>>,
                 val |-> JTagged("int", JAtom("string", FALSE,
                                              Text(BigString(Pos(Two63)))))]>>) }
\* A signature and a public key as strings of a text.
DocSignature == jsonString(Encoded("b64", SymBytes(64, SigSym([id |-> 2, part |-> 32], NoFE))))
DocPublicKey == jsonString(Encoded("b64", PubBytes([id |-> 2, part |-> 32])))
\* Texts given for a Pod: no object; an object with any of the members
\* entries, signature and signerPublicKey, in this order, the entries of
\* every sort and the signature also a number; a signature before illegal
\* entries; and a POD nested under another key, {"id": ..., "jsonPOD": ...}.
optional(key, vals) == {<<>>} \cup { <<[key |-> key, val |-> v]>> : v \in vals }
PodObject(e) ==
    JObject(<<[key |-> KeyBytes.entries, val |-> e],
              [key |-> KeyBytes.signature, val |-> DocSignature],
              [key |-> KeyBytes.signerPublicKey, val |-> DocPublicKey]>>)
PodDocs ==
    NonObjects \cup
    { JObject(e \o sg \o pk) :
        e  \in optional(KeyBytes.entries, EntryDocs \cup {JAtom("null", FALSE, Text(<<>>))}),
        sg \in optional(KeyBytes.signature, {DocSignature, JAtom("number", FALSE, Text(<<49>>))}),
        pk \in optional(KeyBytes.signerPublicKey, {DocPublicKey}) } \cup
    { JObject(<<[key |-> KeyBytes.signature, val |-> DocSignature],
                [key |-> KeyBytes.entries,
                 val |-> JObject(<<[key |-> <<49, 97>>,
                                    val |-> JAtom("null", FALSE, Text(<<>>))]>>)]>>),
      JObject(<<[key |-> <<105, 100>>, val |-> JAtom("string", FALSE, Text(<<56>>))],
                [key |-> <<106, 115, 111, 110, 80, 79, 68>>,
                 val |-> PodObject(JObject(<<>>))]>>) }

\* json.Unmarshal(data, &target)
unmarshalInto(data, p, ents) ==
    IF p.nil
    THEN [entries |-> entriesAfter(EntriesUnmarshalJSON(data), ents), pod |-> NoPod,
          err |-> EntriesUnmarshalJSON(data).err]
    ELSE jsonUnmarshalPod(data, p, ents)

\* data := []byte(...)
GiveText ==
    /\ wire = NoWire
    /\ \E d \in (IF pod.nil THEN EntryDocs \cup NonObjects ELSE PodDocs) :
         wire' = [val |-> d, err |-> ""]
    /\ UNCHANGED <<signerVars, valueVars, entries, hashVars, signVars, decoded, rewire>>

UnmarshalInto ==
    /\ wire.err = ""
    /\ decoded = NoDecoded
    /\ decoded' = unmarshalInto(wire.val, pod, entries)
    /\ UNCHANGED <<signerVars, valueVars, entries, hashVars, signVars, wire, rewire>>

\* The target: a PodEntries, a Pod{} or a Pod with a signature and a key,
\* holding no entries or one.
TargetInit ==
    /\ entries \in EntriesUpTo(1, {})
    /\ Idle
    /\ pod \in { NoPod, Pod(Text(<<>>), Text(<<>>)),
                 Pod(noPadB64Encode(SymBytes(64, SigSym(TestKey, NoFE))),
                     noPadB64Encode(PubBytes(TestKey))) }

TargetNext ==
    \/ GiveText
    \/ UnmarshalInto

SpecTarget == TargetInit /\ [][TargetNext]_vars

(***************************************************************************)
(* The value specification: a PodValue is made by a constructor or written *)
(* as a struct literal and checked; MarshalJSON writes it; a JSON text of  *)
(* it in one of the accepted forms is read by UnmarshalJSON, and what was  *)
(* read is written again.                                                  *)
(***************************************************************************)
\* NewPodCryptographicValue: a copy of val with the result of Check.
NewPodCryptographicValue(val) ==
    IF val.nil THEN [val |-> PodValue(""), err |-> "val should not be nil"]
    ELSE [val |-> Value(PodCryptographicValue, val),
          err |-> Check(Value(PodCryptographicValue, val))]

\* NewPodIntValue
NewPodIntValue(val) ==
    IF val.nil THEN [val |-> PodValue(""), err |-> "val should not be nil"]
    ELSE [val |-> Value(PodIntValue, val), err |-> Check(Value(PodIntValue, val))]

\* Time.Truncate(time.Millisecond): the time rounded down to a whole
\* millisecond; TruncateNot leaves it as it is.
TruncateNot(t) == t
Truncate(t) == [t EXCEPT !.sub = 0]
\* Time.UTC: the same instant in the location UTC.
UTC(t) == [t EXCEPT !.utc = TRUE]
\* a.Equal(b): the same instant, whatever the locations.
TimeEqual(a, b) == ~TimeBefore(a, b) /\ ~TimeBefore(b, a)

NewPodDateValue(val) ==
    IF checkTimeBounds(val, PodDateMin, PodDateMax) # ""
    THEN [val |-> PodValue(""), err |-> checkTimeBounds(val, PodDateMin, PodDateMax)]
    ELSE [val |-> Value(PodDateValue, UTC(Truncate(val))),
          err |-> Check(Value(PodDateValue, UTC(Truncate(val))))]

\* Times given to NewPodDateValue: the bounds, one nanosecond and one
\* millisecond inside and outside them; 2025-06-30T23:44:58.123-08:00 with
\* and without the nanoseconds 456789; times before the epoch and the zero
\* time; in UTC and in another location.
TimeInputs ==
    { Time(day, ms, sub, utc) :
        day \in {-100000001, -100000000, -1, 0, 20270, 99999999, 100000000},
        ms \in {0, 1, 27898123, 86399999},
        sub \in {0, 1, 456789, 999999},
        utc \in BOOLEAN } \cup {ZeroTime}

\* Numbers given to the constructors: nil, around zero, around 2^53, at and
\* beyond the bounds of int and of cryptographic.
BigInputs ==
    { NilBig, Pos(<<>>), Pos(<<1>>), Neg(<<1>>), Neg(<<7>>),
      Pos(<<31, 65535, 65535, 65535>>), Pos(<<32, 0, 0, 0>>),
      Neg(<<31, 65535, 65535, 65535>>), Neg(<<32, 0, 0, 0>>),
      Neg(Two63), Pos(MagSub(Two63, <<1>>)), Neg(<<32768, 0, 0, 1>>), Pos(Two63),
      Pos(MagSub(PodCryptographicMax.mag, <<1>>)), PodCryptographicMax, Q }

madeBy(r, by) == [val |-> r.val, err |-> r.err, by |-> by, arg |-> ZeroTime]

CallNewPodIntValue ==
    /\ made = NoMade
    /\ \E val \in BigInputs : made' = madeBy(NewPodIntValue(val), "NewPodIntValue")
    /\ UNCHANGED <<signerVars, entries, hashVars, signVars, codecVars, written, given, parsed, rewritten>>

CallNewPodCryptographicValue ==
    /\ made = NoMade
    /\ \E val \in BigInputs :
         made' = madeBy(NewPodCryptographicValue(val), "NewPodCryptographicValue")
    /\ UNCHANGED <<signerVars, entries, hashVars, signVars, codecVars, written, given, parsed, rewritten>>

CallNewPodDateValue ==
    /\ made = NoMade
    /\ \E val \in TimeInputs :
         made' = [madeBy(NewPodDateValue(val), "NewPodDateValue") EXCEPT !.arg = val]
    /\ UNCHANGED <<signerVars, entries, hashVars, signVars, codecVars, written, given, parsed, rewritten>>

\* value := PodValue{...}; err := value.Check()
CheckLiteral ==
    /\ made = NoMade
    /\ \E v \in CodecValues \cup { Value(t, x) : t \in {PodIntValue, PodCryptographicValue},
                                                x \in BigInputs } :
         made' = madeBy([val |-> v, err |-> Check(v)], "literal")
    /\ UNCHANGED <<signerVars, entries, hashVars, signVars, codecVars, written, given, parsed, rewritten>>

\* json.Marshal(made)
MarshalValue ==
    /\ made # NoMade
    /\ written = NoWire
    /\ written' = MarshalJSON(made.val)
    /\ UNCHANGED <<signerVars, entries, hashVars, signVars, codecVars, made, given, parsed, rewritten>>

\* The payload of a value in its canonical encoding: what stands under the
\* kind when the encoding is a single-key object, the encoding itself when
\* it is bare.  A number may also be given as the string of its decimal
\* digits.
payloadOf(canonical, v, style) ==
    IF style = "decimal" THEN JAtom("string", FALSE, Text(BigString(v.BigVal)))
    ELSE IF canonical.kind = "object" THEN canonical.members[1].val
    ELSE canonical

\* The forms a writer may give to a value: the canonical encoding,
\* {kind: payload}, and {"type": kind, "value": payload} with its members in
\* either order.
formOf(form, kind, payload, canonical) ==
    LET type  == [key |-> KeyBytes.type, val |-> JAtom("string", FALSE, Text(KeyBytes[kind]))]
        value == [key |-> KeyBytes.value, val |-> payload]
    IN  CASE form = "canonical" -> canonical
          [] form = "single-key" -> JTagged(kind, payload)
          [] form = "type-value" -> JObject(<<type, value>>)
          [] form = "value-type" -> JObject(<<value, type>>)

\* A JSON text of the value made, valid and written without error, in one of
\* the forms.
GiveForm ==
    /\ made.err = ""
    /\ written.err = ""
    /\ given = NoGiven
    /\ \E form \in {"canonical", "single-key", "type-value", "value-type"},
          style \in {"same", "decimal"} :
         /\ style = "decimal" =>
                (/\ made.val.ValueType \in {PodIntValue, PodCryptographicValue}
                 /\ form # "canonical")
         /\ given' = [val |-> formOf(form, made.val.ValueType,
                                     payloadOf(written.val, made.val, style), written.val),
                      form |-> form, payload |-> style]
    /\ UNCHANGED <<signerVars, entries, hashVars, signVars, codecVars, made, written, parsed, rewritten>>

\* Strings given as the payload of a date:
\*   2025-06-30T23:44:58.123456789Z
\*   2025-06-30T23:44:58.123Z
\*   2025-06-30T23:44:58Z
\*   1969-12-31T23:59:59.9999Z
\*   2025-06-30T23:44:58.123-08:00
\*   2025-06-30T23:44:58.123
\*   2025-06-30T23:44:58.123z
\*   2025-02-30T23:44:58.123Z
\*   Z
\*   (empty)
DateTexts ==
    { <<50, 48, 50, 53, 45, 48, 54, 45, 51, 48, 84, 50, 51, 58, 52, 52, 58, 53, 56, 46, 49, 50, 51, 52, 53, 54, 55, 56, 57, 90>>,
      <<50, 48, 50, 53, 45, 48, 54, 45, 51, 48, 84, 50, 51, 58, 52, 52, 58, 53, 56, 46, 49, 50, 51, 90>>,
      <<50, 48, 50, 53, 45, 48, 54, 45, 51, 48, 84, 50, 51, 58, 52, 52, 58, 53, 56, 90>>,
      <<49, 57, 54, 57, 45, 49, 50, 45, 51, 49, 84, 50, 51, 58, 53, 57, 58, 53, 57, 46, 57, 57, 57, 57, 90>>,
      <<50, 48, 50, 53, 45, 48, 54, 45, 51, 48, 84, 50, 51, 58, 52, 52, 58, 53, 56, 46, 49, 50, 51, 45, 48, 56, 58, 48, 48>>,
      <<50, 48, 50, 53, 45, 48, 54, 45, 51, 48, 84, 50, 51, 58, 52, 52, 58, 53, 56, 46, 49, 50, 51>>,
      <<50, 48, 50, 53, 45, 48, 54, 45, 51, 48, 84, 50, 51, 58, 52, 52, 58, 53, 56, 46, 49, 50, 51, 122>>,
      <<50, 48, 50, 53, 45, 48, 50, 45, 51, 48, 84, 50, 51, 58, 52, 52, 58, 53, 56, 46, 49, 50, 51, 90>>,
      <<90>>,
      <<>> }

\* A JSON text {"date": s} that no value of this program wrote.
GiveDateText ==
    /\ made = NoMade
    /\ given = NoGiven
    /\ \E s \in DateTexts :
         given' = [val |-> JTagged(PodDateValue, JAtom("string", FALSE, Text(s))),
                   form |-> "single-key", payload |-> "text"]
    /\ UNCHANGED <<signerVars, entries, hashVars, signVars, codecVars, made, written, parsed, rewritten>>

\* Objects given to UnmarshalJSON that no MarshalJSON wrote: {}; "type" and
\* "value" with a third key, in front and behind; "type" alone; "value" and
\* another key; a "type" that is no string; a kind and another key; a kind
\* written twice.
ObjectTexts ==
    LET str(cs) == JAtom("string", FALSE, Text(cs))
        x       == str(<<120>>)
        y       == str(<<121>>)
        type    == [key |-> KeyBytes.type, val |-> str(KeyBytes.string)]
        value   == [key |-> KeyBytes.value, val |-> x]
        extra   == [key |-> <<101, 120, 116, 114, 97>>, val |-> JAtom("null", FALSE, Text(<<>>))]
        kind(v) == [key |-> KeyBytes.string, val |-> v]
    IN  { JObject(<<>>),
          JObject(<<type, value, extra>>),
          JObject(<<extra, value, type>>),
          JObject(<<type>>),
          JObject(<<value, extra>>),
          JObject(<<[key |-> KeyBytes.type, val |-> JAtom("bool", TRUE, Text(<<>>))], value>>),
          JObject(<<kind(x), extra>>),
          JObject(<<kind(x), kind(y)>>) }

\* A JSON object that no value of this program wrote.
GiveObject ==
    /\ made = NoMade
    /\ given = NoGiven
    /\ \E o \in ObjectTexts :
         given' = [val |-> o, form |-> "object", payload |-> "text"]
    /\ UNCHANGED <<signerVars, entries, hashVars, signVars, codecVars, made, written, parsed, rewritten>>

\* var value PodValue; json.Unmarshal(given, &value)
ParseGiven ==
    /\ given # NoGiven
    /\ parsed = NoParsed
    /\ parsed' = UnmarshalJSON(given.val)
    /\ UNCHANGED <<signerVars, entries, hashVars, signVars, codecVars, made, written, given, rewritten>>

\* json.Marshal(value)
MarshalParsed ==
    /\ parsed.err = ""
    /\ rewritten = NoWire
    /\ rewritten' = MarshalJSON(parsed.val)
    /\ UNCHANGED <<signerVars, entries, hashVars, signVars, codecVars, made, written, given, parsed>>

ValueInit ==
    /\ entries = <<>>
    /\ pod = NoPod
    /\ Idle

ValueNext ==
    \/ CallNewPodIntValue
    \/ CallNewPodCryptographicValue
    \/ CallNewPodDateValue
    \/ CheckLiteral
    \/ MarshalValue
    \/ GiveForm
    \/ GiveDateText
    \/ GiveObject
    \/ ParseGiven
    \/ MarshalParsed

SpecValue == ValueInit /\ [][ValueNext]_vars

(***************************************************************************)
(* The signer specification: a Signer is made of a key string once; hash,  *)
(* Sign and Verify calls then run beside one another, each on entries and  *)
(* a Pod of its own, the Sign calls all on the one Signer.  A call is a    *)
(* sequence of steps, and the steps of the calls interleave.               *)
(***************************************************************************)
\* NewSigner(privateKey): the key string is parsed once, in any of the
\* encodings of 32 bytes; the Signer holds the parsed key and nothing else.
NewSigner(privateKeyHex) ==
    IF DecodeBytes(privateKeyHex, 32).err # ""
    THEN [nil |-> TRUE, key |-> privateKeyHex, privateKey |-> NoSym.key,
          err |-> "failed to parse private key"]
    ELSE [nil |-> FALSE, key |-> privateKeyHex,
          privateKey |-> DecodeBytes(privateKeyHex, 32).val.sym.key, err |-> ""]

\* Signer.Sign(entries): signPod with the key the Signer holds.
SignerSign(s, ents, iter) == signPod(s.privateKey, ents, iter)

\* contentID, err := computeContentID(entries) declares a variable of the
\* call: the frame that holds the contentID of call p is the frame of p.
frameShared(p) == 1
frameOf(p) == p

\* The entries a call is given: none, one int, a string and a null, and a
\* value of no kind, which cannot be hashed.
CallEntries ==
    { <<>>,
      [n \in {<<65>>} |-> Value(PodIntValue, Pos(<<1>>))],
      [n \in {<<65>>, <<66>>} |-> IF n = <<65>> THEN Value(PodStringValue, <<120>>)
                                  ELSE PodValue(PodNullValue)],
      [n \in {<<66>>} |-> PodValue("")] }
\* The Pods a Verify call is given with the entries: signed by the test key,
\* signed by another key, and with a signature of 63 bytes.
CallPods(ents) ==
    { Pod(sig, Encoded("b64", PubBytes(TestKey))) :
        sig \in ValidSignatures(ents)
                  \cup { Encoded("hex", SymBytes(64, SigSym([id |-> 2, part |-> 32], NoFE))),
                         Encoded("b64", SymBytes(63, [SigSym([id |-> 2, part |-> 32], NoFE)
                                                        EXCEPT !.kind = "junk"])) } }

\* signer, err := NewSigner(privateKey)
CallNewSigner ==
    /\ signer = NoSigner
    /\ \E privateKeyHex \in KeyStrings : signer' = NewSigner(privateKeyHex)
    /\ UNCHANGED <<entries, hashVars, signVars, codecVars, valueVars, calls>>

starts(p, op, ents, pd) ==
    /\ calls[p].pc \in {"idle", "returned"}
    /\ calls' = [calls EXCEPT ![p] = [NoFrame EXCEPT !.op = op, !.pc = "called",
                                                     !.entries = ents, !.pod = pd]]
    /\ UNCHANGED <<entries, hashVars, signVars, codecVars, valueVars, signer>>

\* go computeContentID(entries)
GoHash(p) == \E ents \in CallEntries : starts(p, "hash", ents, NoPod)

\* go signer.Sign(entries)
GoSign(p) ==
    /\ ~signer.nil
    /\ \E ents \in CallEntries : starts(p, "Sign", ents, NoPod)

\* go pod.Verify()
GoVerify(p) == \E ents \in CallEntries : \E pd \in CallPods(ents) : starts(p, "Verify", ents, pd)

\* Verify: the two DecodeBytes calls; a failure returns at once.
DecodeStep(p) ==
    /\ calls[p].op = "Verify"
    /\ calls[p].pc = "called"
    /\ LET signatureBytes == DecodeBytes(calls[p].pod.Signature, 64)
           publicKeyBytes == DecodeBytes(calls[p].pod.SignerPublicKey, 32)
           failed == signatureBytes.err # "" \/ publicKeyBytes.err # ""
       IN  calls' = [calls EXCEPT
                       ![p].signatureBytes = signatureBytes,
                       ![p].publicKeyBytes = publicKeyBytes,
                       ![p].pc = IF failed THEN "returned" ELSE "decoded",
                       ![p].verified = IF failed
                                       THEN verifyDecoded(signatureBytes, publicKeyBytes, NoResult)
                                       ELSE NoVerify]
    /\ UNCHANGED <<entries, hashVars, signVars, codecVars, valueVars, signer>>

\* contentID, err := computeContentID(entries), in computeContentID's caller
\* or as the call itself.
HashStep(p) ==
    /\ \/ calls[p].op \in {"hash", "Sign"} /\ calls[p].pc = "called"
       \/ calls[p].op = "Verify" /\ calls[p].pc = "decoded"
    /\ \E iter \in Perms(DOMAIN calls[p].entries) :
         calls' = [[calls EXCEPT ![p].pc = "hashed"]
                     EXCEPT ![frameOf(p)].contentID = computeContentID(calls[p].entries, iter)]
    /\ UNCHANGED <<entries, hashVars, signVars, codecVars, valueVars, signer>>

\* The rest of the call, from its contentID to its return.
ReturnStep(p) ==
    /\ calls[p].pc = "hashed"
    /\ calls' = [calls EXCEPT
                   ![p].pc = "returned",
                   ![p].hash = IF calls[p].op = "hash" THEN calls[frameOf(p)].contentID
                               ELSE NoResult,
                   ![p].signed = IF calls[p].op = "Sign"
                                 THEN signContentID(signer.privateKey,
                                                    calls[frameOf(p)].contentID)
                                 ELSE NoFrame.signed,
                   ![p].verified = IF calls[p].op = "Verify"
                                   THEN verifyDecoded(calls[p].signatureBytes,
                                                      calls[p].publicKeyBytes,
                                                      calls[frameOf(p)].contentID)
                                   ELSE NoVerify]
    /\ UNCHANGED <<entries, hashVars, signVars, codecVars, valueVars, signer>>

SignerInit ==
    /\ entries = <<>>
    /\ pod = NoPod
    /\ Idle

SignerNext ==
    \/ CallNewSigner
    \/ \E p \in Procs : GoHash(p)
    \/ \E p \in Procs : GoSign(p)
    \/ \E p \in Procs : GoVerify(p)
    \/ \E p \in Procs : DecodeStep(p)
    \/ \E p \in Procs : HashStep(p)
    \/ \E p \in Procs : ReturnStep(p)

SpecSigner == SignerInit /\ [][SignerNext]_vars

(***************************************************************************)
(* Properties.                                                             *)
(***************************************************************************)
Verified == verifyRes # NoVerify
VerifiedTrue == [ok |-> TRUE, err |-> ""]
VerifiedFalse == [ok |-> FALSE, err |-> ""]
CreatePodCalled == signErr \notin {"none", "literal"}
ValidKeyStrings == { Encoded("hex", PrivBytes(32)), Encoded("b64", PrivBytes(32)) }
\* Every value of the entries can be hashed: an eddsa_pubkey value is the
\* compression of a curve point, a number is not nil.
Hashable(ents) == \A n \in DOMAIN ents : Hash(ents[n]).err = ""

\* C1 (as stated): for every valid 32-byte private key and every valid
\* non-empty entries set, Sign returns a Pod and Verify on it returns
\* (true, nil).
C1_RoundTripOfValidEntries ==
    (/\ CreatePodCalled
     /\ tamper = NoTamper
     /\ signed.key \in ValidKeyStrings
     /\ entries # <<>>
     /\ EntriesCheck(entries) = "")
    => (signErr = "" /\ (Verified => verifyRes = VerifiedTrue))

\* C1 (amended): Verify on a Pod that CreatePod returned, unchanged since,
\* returns (true, nil); and CreatePod returns a Pod for a 32-byte key in hex
\* or unpadded Base64 and valid non-empty entries whose values can all be
\* hashed.
C1_RoundTrip ==
    /\ (signErr = "" /\ tamper = NoTamper /\ Verified) => verifyRes = VerifiedTrue
    /\ (/\ CreatePodCalled
        /\ tamper = NoTamper
        /\ signed.key \in ValidKeyStrings
        /\ entries # <<>>
        /\ EntriesCheck(entries) = ""
        /\ Hashable(entries)) => signErr = ""

C1_Witness ==
    /\ signErr = ""
    /\ tamper = NoTamper
    /\ signed.key \in ValidKeyStrings
    /\ Cardinality(DOMAIN entries) = 2
    /\ EntriesCheck(entries) = ""
    /\ verifyRes = VerifiedTrue

\* C2: computeContentID returns the same result on every call and for every
\* order in which the map yields its entries.
C2_ContentIDDeterministic ==
    (cidPrev # NoResult) => cid = cidPrev

C2_Witness ==
    /\ cidPrev # NoResult
    /\ reordered
    /\ Cardinality(DOMAIN entries) = MaxEntries
    /\ EntriesCheck(entries) = ""
    /\ cid.err = ""

\* C3: Verify returns (false, error) exactly when decoding the signature or
\* the public key, computing the content ID, or decompressing either of them
\* fails; (false, nil) when all succeed and the curve check rejects; (true,
\* nil) otherwise; never true with an error.  (A Verify that panics returns
\* nothing.)
verifySteps(signatureBytes, publicKeyBytes, contentID) ==
    [failed |-> \/ signatureBytes.err # ""
                \/ publicKeyBytes.err # ""
                \/ contentID.err # ""
                \/ SignatureDecompress(signatureBytes.val).err # ""
                \/ PublicKeyDecompress(publicKeyBytes.val).err # "",
     rejected |-> VerifyPoseidon(publicKeyBytes.val, contentID.val, signatureBytes.val)
                    = ErrVerifyPoseidonFailed]
verifyOutcome(steps) ==
    /\ (verifyRes.ok = FALSE /\ verifyRes.err # "") <=> steps.failed
    /\ (~steps.failed /\ steps.rejected) => verifyRes = VerifiedFalse
    /\ (~steps.failed /\ ~steps.rejected) => verifyRes = VerifiedTrue
    /\ ~(verifyRes.ok /\ verifyRes.err # "")
C4_AnyChangeGivesFalse ==
    (Verified /\ tamper.kind \in {"value", "name"}) => verifyRes = VerifiedFalse

\* C4 (amended): changing one entry's name makes Verify return (false, nil);
\* replacing one entry's value makes Verify return (false, nil) when the new
\* value has another value hash, (true, nil) when it has the same value hash
\* (the hash does not cover the kind), and an error when it cannot be hashed.
valueChangeOutcome(old, new) ==
    IF new.err # "" THEN verifyRes.ok = FALSE /\ verifyRes.err = "failed computing content ID"
    ELSE IF new.val = old.val THEN verifyRes = VerifiedTrue
    ELSE verifyRes = VerifiedFalse
C4_TamperedEntries ==
    /\ (Verified /\ tamper.kind = "name") => verifyRes = VerifiedFalse
    /\ (Verified /\ tamper.kind = "value") =>
           valueChangeOutcome(Hash(tamper.old), Hash(entries[tamper.name]))

C4_Witness ==
    /\ tamper.kind = "value"
    /\ Hash(tamper.old).val # Hash(entries[tamper.name]).val
    /\ Cardinality(DOMAIN entries) = 2
    /\ verifyRes = VerifiedFalse

\* C5 (as stated): on a Pod made by CreatePod, flipping one bit of the
\* signature bytes or of the public key bytes makes Verify return (false,
\* nil), not an error.
C5_AnyFlipGivesFalse ==
    (Verified /\ tamper.kind \in {"signature bit", "public key bit"})
        => verifyRes = VerifiedFalse

\* C5 (amended): after such a flip Verify never returns true; it returns
\* (false, nil) when the flipped bytes still decompress to a curve point and
\* (false, error) when they do not.
C5_FlippedBit ==
    /\ (Verified /\ tamper.kind = "signature bit") =>
           verifyRes = IF pod.Signature.data.sym.curve THEN VerifiedFalse
                       ELSE [ok |-> FALSE, err |-> "failed to decompress signature"]
    /\ (Verified /\ tamper.kind = "public key bit") =>
           verifyRes = IF pod.SignerPublicKey.data.sym.curve THEN VerifiedFalse
                       ELSE [ok |-> FALSE, err |-> "failed to decompress public key"]

C5_Witness ==
    /\ tamper.kind = "signature bit"
    /\ pod.Signature.data.sym.flip = 2
    /\ verifyRes = VerifiedFalse

\* C6 (as stated): every Pod returned by CreatePod has entries that pass
\* PodEntries.Check; for invalid entries it returns an error and signs nothing.
C6_SignedEntriesPassCheck ==
    signErr = "" => EntriesCheck(signed.entries) = ""

\* C7 (as stated): computeContentID returns an error, and no content ID, for
\* entries with a name failing the name rule or a value failing Check, and
\* Verify on a Pod holding such entries returns an error.
C7_InvalidEntriesNotHashed ==
    /\ (cid # NoResult /\ EntriesCheck(entries) # "") => cid.err # ""
    /\ (Verified /\ EntriesCheck(entries) # "") => verifyRes.err # ""

\* C8: for N >= 1 entries the content ID is the reference fold of the 2N
\* leaves [nameHash_1, valueHash_1, ..., nameHash_N, valueHash_N], names in
\* byte-wise order: each level replaces adjacent pairs (a, b) by
\* Poseidon([a, b]) and carries a trailing unpaired element unchanged, until
\* one element remains; a one-element input is returned as it is.
RefSortedNames(ents) ==
    CHOOSE s \in Perms(DOMAIN ents) :
        \A i, j \in DOMAIN s : i < j => SeqCmp(s[i], s[j]) < 0
RefLeaves(ents) ==
    [i \in 1..(2 * Cardinality(DOMAIN ents)) |->
        IF i % 2 = 1 THEN hashString(RefSortedNames(ents)[(i + 1) \div 2])
        ELSE Hash(ents[RefSortedNames(ents)[i \div 2]]).val]
RefLevel(xs) ==
    [j \in 1..((Len(xs) + 1) \div 2) |->
        IF 2 * j <= Len(xs)
        THEN [tag |-> "poseidon", neg |-> FALSE, digits |-> <<>>,
              args |-> <<xs[2 * j - 1], xs[2 * j]>>]
        ELSE xs[2 * j - 1]]
RECURSIVE RefFold(_)
RefFold(xs) == IF Len(xs) = 1 THEN xs[1] ELSE RefFold(RefLevel(xs))
C8_ContentIDIsReferenceFold ==
    (cid # NoResult /\ cid.err = "") =>
        /\ cid.val = RefFold(RefLeaves(entries))
        /\ leanPoseidonIMT(<<cid.val>>) = Ok(cid.val)

C8_Witness ==
    /\ cid # NoResult
    /\ cid.err = ""
    /\ Cardinality(DOMAIN entries) = 3

\* C9: computing the content ID of zero entries returns an error and no field
\* element, so CreatePod on empty entries returns an error and no Pod, and
\* Verify on a Pod with empty entries returns (false, error).
C9_EmptyEntriesError ==
    entries = <<>> =>
        /\ cid # NoResult => cid = Fail("error when computing poseidon IMT")
        /\ CreatePodCalled => (pod.nil /\ signErr # "")
        /\ (CreatePodCalled /\ signed.key \in ValidKeyStrings)
               => signErr = "failed computing content ID"
        /\ Verified => (~verifyRes.ok /\ verifyRes.err # "")

C9_Witness ==
    /\ entries = <<>>
    /\ cid = Fail("error when computing poseidon IMT")

\* C10 (as stated): for every valid Pod, and for every valid PodEntries,
\* json.Marshal succeeds, json.Unmarshal of what it wrote succeeds and gives
\* the same entries (kind and payload of each), signature and
\* signerPublicKey, and json.Marshal of that writes the same bytes again.
ValidPod ==
    /\ EntriesCheck(entries) = ""
    /\ pod.nil \/ (/\ DecodeBytes(pod.Signature, 64).err = ""
                   /\ DecodeBytes(pod.SignerPublicKey, 32).err = "")
C10_EncodingRoundTrip ==
    ValidPod =>
        /\ wire # NoWire => wire.err = ""
        /\ decoded # NoDecoded =>
               (decoded.err = "" /\ decoded.entries = entries /\ decoded.pod = pod)
        /\ rewire # NoWire => rewire = wire

\* C11: the form {"type": kind, "value": payload} and the form
\* {kind: payload} of a value are read by UnmarshalJSON as its canonical
\* encoding is read (the same PodValue, the same error if any), and
\* MarshalJSON of what was read writes the canonical encoding again.
FormGiven == given # NoGiven /\ given.payload # "text"
C11_LegacyFormsParseAlike ==
    FormGiven =>
        /\ parsed # NoParsed => parsed = UnmarshalJSON(written.val)
        /\ rewritten # NoWire => rewritten = written

C11_Witness ==
    /\ given.form = "value-type"
    /\ made.val.ValueType = PodCryptographicValue
    /\ given.payload = "decimal"
    /\ ~fitsInSafeJSRange(made.val.BigVal)
    /\ parsed = [val |-> made.val, err |-> ""]
    /\ rewritten = written

\* A number was written by MarshalJSON: made is an int or a cryptographic
\* value that is not nil.
NumberWritten ==
    /\ written # NoWire
    /\ made.val.ValueType \in {PodIntValue, PodCryptographicValue}
    /\ ~made.val.BigVal.nil
\* The magnitude of the number is at most 2^53 - 1 = 9007199254740991.
AtMostSafe(z) == Cmp(Pos(z.mag), Pos(<<31, 65535, 65535, 65535>>)) <= 0
\* A JSON number literal of a whole number: digits after an optional minus
\* sign, no leading zero, and the number they write.
IsLiteralOf(cs, z) ==
    LET ds == IF cs # <<>> /\ cs[1] = 45 THEN Tail(cs) ELSE cs
    IN  /\ ds # <<>>
        /\ \A i \in DOMAIN ds : IsDigit(ds[i])
        /\ Len(ds) > 1 => ds[1] # 48
        /\ SetString(cs, 10).val = z
\* The single-key object {kind: payload} of a JSON text, if it is one.
IsTagged(j, kind, payloadKind) ==
    /\ j.kind = "object"
    /\ Len(j.members) = 1
    /\ j.members[1].key = KeyBytes[kind]
    /\ j.members[1].val.kind = payloadKind

\* C12 (as stated): MarshalJSON writes every int value and every
\* cryptographic value of magnitude at most 2^53 - 1 as a bare JSON number.
C12_SafeNumbersAreBare ==
    (NumberWritten /\ AtMostSafe(made.val.BigVal)) =>
        /\ written.err = ""
        /\ written.val.kind = "number"
        /\ IsLiteralOf(written.val.text.text, made.val.BigVal)

\* C12 (amended): MarshalJSON writes an int value of magnitude at most
\* 2^53 - 1 as a bare JSON number, and a cryptographic value of such a
\* magnitude as {"cryptographic": number}, the number a JSON number and not
\* a string.
C12_SafeNumbers ==
    (NumberWritten /\ AtMostSafe(made.val.BigVal)) =>
        /\ written.err = ""
        /\ made.val.ValueType = PodIntValue =>
               /\ written.val.kind = "number"
               /\ IsLiteralOf(written.val.text.text, made.val.BigVal)
        /\ made.val.ValueType = PodCryptographicValue =>
               /\ IsTagged(written.val, PodCryptographicValue, "number")
               /\ IsLiteralOf(written.val.members[1].val.text.text, made.val.BigVal)

C12_Witness ==
    /\ made.val = Value(PodIntValue, Neg(<<31, 65535, 65535, 65535>>))
    /\ written.val.kind = "number"
    /\ Len(written.val.text.text) = 17

\* C13: MarshalJSON writes an int or cryptographic value of magnitude 2^53
\* or more as the single-key object {kind: string}: the string is 0x and
\* the lowercase hexadecimal digits of a number that is not negative, and
\* the decimal digits with their minus sign of a negative one.  The switch
\* is exact: int 2^53 - 1 is the bare number 9007199254740991 and int 2^53
\* is {"int":"0x20000000000000"}.
IsHexLiteralOf(cs, z) ==
    /\ Len(cs) >= 3
    /\ cs[1] = 48 /\ cs[2] = 120 /\ cs[3] # 48
    /\ \A i \in 3..Len(cs) : IsDigit(cs[i]) \/ cs[i] \in 97..102
    /\ SetString(SubSeq(cs, 3, Len(cs)), 16).val = z
C13_LargeNumbersAreTaggedStrings ==
    /\ (NumberWritten /\ ~AtMostSafe(made.val.BigVal)) =>
          /\ written.err = ""
          /\ IsTagged(written.val, made.val.ValueType, "string")
          /\ IF made.val.BigVal.neg
             THEN /\ written.val.members[1].val.text.text[1] = 45
                  /\ IsLiteralOf(written.val.members[1].val.text.text, made.val.BigVal)
             ELSE IsHexLiteralOf(written.val.members[1].val.text.text, made.val.BigVal)
    /\ (written # NoWire /\ made.val = Value(PodIntValue, Pos(<<31, 65535, 65535, 65535>>))) =>
          written.val = JAtom("number", FALSE,
                              Text(<<57, 48, 48, 55, 49, 57, 57, 50, 53, 52, 55, 52, 48, 57, 57, 49>>))
    /\ (written # NoWire /\ made.val = Value(PodIntValue, Pos(<<32, 0, 0, 0>>))) =>
          written.val = JTagged("int", JAtom("string", FALSE,
                                  Text(<<48, 120, 50, 48, 48, 48, 48, 48, 48, 48,
                                         48, 48, 48, 48, 48, 48>>)))

C13_Witness ==
    /\ made.val = Value(PodIntValue, Pos(<<32, 0, 0, 0>>))
    /\ made.by = "NewPodIntValue"
    /\ written.err = ""
    /\ written.val.kind = "object"

\* The number the value table of the specification calls P.
TableP ==
    newBigIntFromDecimalLiteral(
        <<2,1,8,8,8,2,4,2,8,7,1,8,3,9,2,7,5,2,2,2,2,4,6,4,0,5,7,4,5,2,5,7,2,7,5,0,8,8,5,4,
          8,3,6,4,4,0,0,4,1,6,0,3,4,3,4,3,6,9,8,2,0,4,1,8,6,5,7,5,8,0,8,4,9,5,6,1,6>>)
\* A cryptographic value was checked: by NewPodCryptographicValue, which
\* was given a number, or by Check on a struct literal.
CryptographicChecked ==
    /\ made # NoMade
    /\ made.val.ValueType = PodCryptographicValue
    /\ ~made.val.BigVal.nil
Accepted == made.err = ""

\* C14 (as stated): with P the number of the value table, Check and
\* NewPodCryptographicValue accept the cryptographic values 0 and P - 1 and
\* reject P and -1.
C14_TablePRejected ==
    CryptographicChecked =>
        /\ made.val.BigVal = Pos(<<>>) => Accepted
        /\ made.val.BigVal = Pos(MagSub(TableP.mag, <<1>>)) => Accepted
        /\ made.val.BigVal = TableP => ~Accepted
        /\ made.val.BigVal = Neg(<<1>>) => ~Accepted

\* C14 (amended): the number of the value table is the greatest legal
\* value, one less than the field prime: Check and NewPodCryptographicValue
\* accept a cryptographic value exactly from 0 to P, so they accept 0, P - 1
\* and P, and reject P + 1 and -1.
C14_CryptographicBounds ==
    CryptographicChecked =>
        /\ Accepted <=> (~made.val.BigVal.neg /\ Cmp(made.val.BigVal, TableP) <= 0)
        /\ made.val.BigVal \in {Pos(<<>>), Pos(MagSub(TableP.mag, <<1>>)), TableP} => Accepted
        /\ made.val.BigVal \in {Q, Neg(<<1>>)} => ~Accepted
        /\ MagSub(Q.mag, TableP.mag) = <<1>>

C14_Witness ==
    /\ made.by = "NewPodCryptographicValue"
    /\ made.val.BigVal = TableP
    /\ Accepted

\* C15: Check and NewPodIntValue accept an int value exactly when it lies
\* in [-2^63, 2^63 - 1]: both bounds are accepted, -2^63 - 1 and 2^63 are
\* rejected, and a nil payload is rejected.
InInt64(z) ==
    /\ ~z.nil
    /\ Cmp(z, Neg(<<32768, 0, 0, 0>>)) >= 0
    /\ Cmp(z, Pos(<<32767, 65535, 65535, 65535>>)) <= 0
C15_IntBounds ==
    /\ (made.by = "literal" /\ made.val.ValueType = PodIntValue) =>
           (Accepted <=> InInt64(made.val.BigVal))
    /\ made.by = "NewPodIntValue" =>
           /\ Accepted <=> (made.val.ValueType = PodIntValue /\ InInt64(made.val.BigVal))
           /\ made.val.ValueType # PodIntValue => made.val = PodValue("")
    /\ (made # NoMade /\ made.val.ValueType = PodIntValue) =>
           /\ made.val.BigVal \in {Neg(<<32768, 0, 0, 0>>),
                                   Pos(<<32767, 65535, 65535, 65535>>)} => Accepted
           /\ made.val.BigVal \in {Neg(<<32768, 0, 0, 1>>), Pos(<<32768, 0, 0, 0>>),
                                   NilBig} => ~Accepted

C15_Witness ==
    /\ made.by = "NewPodIntValue"
    /\ made.val.BigVal = Neg(<<32768, 0, 0, 0>>)
    /\ Accepted

\* C16: json.Unmarshal into PodEntries succeeds only if every name of the
\* text matches ^[A-Za-z_]\w*$ and every value of it is read to a PodValue
\* that passes Check; otherwise it returns an error.  What a successful call
\* gives holds every name of the text with the value read for it, and passes
\* Check.
DocumentIsLegal ==
    /\ wire.val.kind = "object"
    /\ \A i \in DOMAIN wire.val.members :
          /\ PodNameRegex(wire.val.members[i].key)
          /\ UnmarshalJSON(wire.val.members[i].val).err = ""
          /\ Check(UnmarshalJSON(wire.val.members[i].val).val) = ""
C16_UnmarshalEntriesChecks ==
    decoded # NoDecoded =>
        /\ decoded.err = "" <=> DocumentIsLegal
        /\ decoded.err = "" =>
              /\ DOMAIN decoded.entries = { wire.val.members[i].key : i \in DOMAIN wire.val.members }
              /\ \A i \in DOMAIN wire.val.members :
                    \E j \in DOMAIN wire.val.members :
                        /\ wire.val.members[j].key = wire.val.members[i].key
                        /\ decoded.entries[wire.val.members[i].key] =
                               UnmarshalJSON(wire.val.members[j].val).val
              /\ \A n \in DOMAIN decoded.entries :
                    PodNameRegex(n) /\ Check(decoded.entries[n]) = ""

\* A text with a legal entry and an entry of an illegal name is refused.
C16_Witness ==
    /\ Len(wire.val.members) = 2
    /\ wire.val.members[1] = [key |-> <<65>>, val |-> JAtom("null", FALSE, Text(<<>>))]
    /\ wire.val.members[2].key = <<49, 97>>
    /\ UnmarshalJSON(wire.val.members[2].val).err = ""
    /\ decoded # NoDecoded
    /\ decoded.err # ""

\* C17: Verify returns the same result and error whether Signature and
\* SignerPublicKey hold the hex, the padded Base64 or the unpadded Base64 of
\* the same 64 and 32 bytes.
Encodings == {"hex", "b64", "b64pad"}
\* The Pod holds encodings of 64 and of 32 bytes.
HoldsEncodedBytes ==
    /\ ~pod.nil
    /\ pod.Signature.enc \in Encodings /\ pod.Signature.data.n = 64
    /\ pod.SignerPublicKey.enc \in Encodings /\ pod.SignerPublicKey.data.n = 32
C17_VerifyWhateverTheEncoding ==
    (HoldsEncodedBytes /\ verifyRes # NoVerify) =>
        \A se \in Encodings, ke \in Encodings, iter \in Perms(DOMAIN entries) :
            Verify(Pod(Encoded(se, pod.Signature.data), Encoded(ke, pod.SignerPublicKey.data)),
                   entries, iter) = verifyRes

\* A Pod made by CreatePod whose signature was then written in padded
\* Base64 verifies.
C17_Witness ==
    /\ signErr = ""
    /\ tamper.kind = "signature"
    /\ pod.Signature.enc = "b64pad"
    /\ pod.SignerPublicKey.enc = "b64"
    /\ verifyRes = [ok |-> TRUE, err |-> ""]

\* C18 (as stated): CreatePod given the same 32-byte private key as 64
\* hex characters, as Base64 without padding or as Base64 with padding
\* returns, for the same entries, Pods whose JSON is byte for byte the same.
C18_SameKeySamePod ==
    (CreatePodCalled /\ tamper = NoTamper /\ signed.key.data.n = 32) =>
        \A enc \in Encodings :
            \E iter \in Perms(DOMAIN entries) :
                LET other == CreatePod(Encoded(enc, signed.key.data), entries, iter)
                IN  /\ other.err = signErr
                    /\ jsonMarshalPod(other.val, entries) = jsonMarshalPod(pod, entries)

\* C19 (as stated): CreatePod given a key string that does not decode to
\* exactly 32 bytes returns an error that begins with "failed to parse
\* private key" and no Pod; it never signs with a zero or partly filled key.
C19_ShortKeyRefused ==
    (CreatePodCalled /\ signed.key.data.n # 32) =>
        /\ signErr = "failed to parse private key"
        /\ pod = NoPod

\* C20: Verify leaves the Pod as it is: the entries, the signature and
\* the signer's public key are the same after every Verify call as before
\* it, also when the call returns an error; so a Verify call repeated on
\* the Pod returns what the call before it returned.
VerifyReturns == verifyRes' # verifyRes \/ verifyPrev' # verifyPrev
C20_VerifyChangesNothing ==
    [][VerifyReturns =>
           /\ pod' = pod
           /\ entries' = entries
           /\ verifyRes # NoVerify => verifyRes' = verifyRes]_vars

\* Verify was called twice on a Pod of two entries whose signature does not
\* decode, and returned the error twice.
C20_Witness ==
    /\ Cardinality(DOMAIN entries) = 2
    /\ verifyPrev = [ok |-> FALSE, err |-> "failed to decode signature"]
    /\ verifyRes = verifyPrev

\* C21 (as stated): after CreatePod has returned a Pod, a change the caller
\* makes to the entries map it passed (a value stored, a name removed and
\* another added) does not change the entries of the Pod, so Verify on the
\* Pod still returns (true, nil).
C21_PodOwnsItsEntries ==
    (signErr = "" /\ tamper.kind \in {"value", "name"}) =>
        /\ entries = signed.entries
        /\ Verified => verifyRes = VerifiedTrue

\* C22 (as stated): json.Unmarshal into a Pod of a text that is not a POD
\* object returns an error: an object without entries, signature and
\* signerPublicKey (as {} or an object that holds the POD under another
\* key), an array, a number, and empty input.
NotAPodObject(d) ==
    \/ d \in {JEmpty, JArray}
    \/ d.kind = "number"
    \/ /\ d.kind = "object"
       /\ \A i \in DOMAIN d.members :
             d.members[i].key \notin {KeyBytes.entries, KeyBytes.signature,
                                      KeyBytes.signerPublicKey}
C22_NonPodTextRefused ==
    (~pod.nil /\ decoded # NoDecoded /\ NotAPodObject(wire.val)) => decoded.err # ""

\* C27 (as stated): after a successful json.Unmarshal into a Pod or a
\* PodEntries that already holds entries, the entries are exactly those of
\* the JSON object: no name of before the call is left unless the text has
\* it.
TextEntries ==
    IF pod.nil THEN wire.val
    ELSE IF wire.val.kind = "object" THEN member(wire.val, KeyBytes.entries).val
    ELSE NoJson
C27_UnmarshalReplacesEntries ==
    (decoded # NoDecoded /\ decoded.err = "" /\ wire.val.kind = "object") =>
        DOMAIN decoded.entries = { TextEntries.members[i].key : i \in DOMAIN TextEntries.members }

\* C23: NewPodDateValue(t) fails when t is before PodDateMin or after
\* PodDateMax, be it by one nanosecond; otherwise the time stored is t cut
\* to whole milliseconds and in UTC, which is the instant of t exactly when
\* t has no part below the millisecond.
DateMade == made.by = "NewPodDateValue"
\* The nanoseconds from the epoch to t, as days, milliseconds and the rest,
\* lie within 100,000,000 days on either side.
WithinDateBounds(t) ==
    /\ t.day >= -100000000
    /\ t.day < 100000000 \/ (t.day = 100000000 /\ t.ms = 0 /\ t.sub = 0)
C23_DateConstructor ==
    DateMade =>
        /\ Accepted <=> WithinDateBounds(made.arg)
        /\ ~Accepted => made.val = PodValue("")
        /\ Accepted =>
              /\ made.val.ValueType = PodDateValue
              /\ made.val.TimeVal = Time(made.arg.day, made.arg.ms, 0, TRUE)
              /\ TimeEqual(made.val.TimeVal, made.arg) <=> made.arg.sub = 0

\* 2025-06-30T23:44:58.123456789-08:00 is stored as 07:44:58.123 UTC of the
\* next day.
C23_Witness ==
    /\ DateMade
    /\ made.arg = Time(20270, 27898123, 456789, FALSE)
    /\ Accepted
    /\ made.val.TimeVal = Time(20270, 27898123, 0, TRUE)

\* C24: parsing a date payload rejects every string that does not end in Z,
\* and every date value of a successful parse holds no part below the
\* millisecond.
DateParsed ==
    /\ given # NoGiven
    /\ parsed # NoParsed
    /\ given.val.kind = "object"
    /\ Len(given.val.members) = 1
    /\ given.val.members[1].key = KeyBytes.date
    /\ given.val.members[1].val.kind = "string"
EndsInZ(cs) == cs # <<>> /\ cs[Len(cs)] = 90
C24_ParsedDateInMilliseconds ==
    DateParsed =>
        /\ ~EndsInZ(given.val.members[1].val.text.text) => parsed.err # ""
        /\ parsed.err = "" => parsed.val.TimeVal.sub = 0
\* The half of C24 that the parser keeps: a string not ending in Z is refused.
C24_NoZRefused ==
    DateParsed /\ ~EndsInZ(given.val.members[1].val.text.text) => parsed.err # ""
C24_Witness ==
    /\ DateParsed
    /\ made = NoMade
    /\ parsed.err = ""
    /\ parsed.val.TimeVal.sub = 456789

\* C25: for every private key and entries, NewSigner(key).Sign(entries)
\* returns what CreatePod(key, entries) returns (the same Pod, or an error
\* where it returns an error), whatever Sign calls the Signer served before.
SignReturned(p) == calls[p].op = "Sign" /\ calls[p].pc = "returned"
C25_SignerSignsAsCreatePod ==
    /\ signer.err \notin {"", "none"} =>
           \A ents \in CallEntries : \A iter \in Perms(DOMAIN ents) :
               CreatePod(signer.key, ents, iter).err # ""
    /\ \A p \in Procs :
           SignReturned(p) =>
               \A iter \in Perms(DOMAIN calls[p].entries) :
                   /\ CreatePod(signer.key, calls[p].entries, iter).val = calls[p].signed.val
                   /\ CreatePod(signer.key, calls[p].entries, iter).err = calls[p].signed.err
\* What holds of C25: a Sign call returns what signPod returns for the key
\* the Signer parsed, whatever Sign calls the Signer served before.
C25_SignIsSignPod ==
    \A p \in Procs :
        SignReturned(p) =>
            \A iter \in Perms(DOMAIN calls[p].entries) :
                calls[p].signed = signPod(signer.privateKey, calls[p].entries, iter)

\* C26: hash, Sign and Verify calls that run beside one another, each on
\* entries and a Pod of its own and the Sign calls on one Signer, return in
\* every interleaving of their steps what the same call returns when it runs
\* alone; and a step of one call writes neither the frame of another call
\* nor the Signer.
AsRunAlone(p) ==
    \E iter \in Perms(DOMAIN calls[p].entries) :
        /\ calls[p].op = "hash" => calls[p].hash = computeContentID(calls[p].entries, iter)
        /\ calls[p].op = "Sign" => calls[p].signed = SignerSign(signer, calls[p].entries, iter)
        /\ calls[p].op = "Verify" =>
               calls[p].verified = Verify(calls[p].pod, calls[p].entries, iter)
ReturnsAsRunAlone == \A p \in Procs : calls[p].pc = "returned" => AsRunAlone(p)
WritesOwnFrameOnly ==
    \A p \in Procs :
        calls'[p] # calls[p] =>
            /\ signer' = signer
            /\ \A q \in Procs \ {p} : calls'[q] = calls[q]
ObjectParsed == given # NoGiven /\ parsed # NoParsed /\ given.val.kind = "object"
TypeAndValue == {KeyBytes.type, KeyBytes.value}
C28_ObjectShapes ==
    ObjectParsed =>
        /\ parsed.err = "" =>
               Cardinality(keysOf(given.val)) = 1 \/ keysOf(given.val) = TypeAndValue
        /\ (keysOf(given.val) = {}
              \/ (TypeAndValue \subseteq keysOf(given.val) /\ keysOf(given.val) # TypeAndValue))
             => parsed.err = "invalid PodValue"
\* What holds of C28: an object with no key, and an object of several keys
\* without "type", without "value" or with a "type" that is no string, is
\* refused with "invalid PodValue".
C28_NoTypeNoValueRefused ==
    ObjectParsed /\ Cardinality(keysOf(given.val)) # 1
                 /\ (~TypeAndValue \subseteq keysOf(given.val)
                       \/ member(given.val, KeyBytes.type).val.kind # "string")
        => parsed.err = "invalid PodValue"

\* C29: leanPoseidonIMT ends on every input of n >= 1 elements: every level
\* is ceil(len / 2) long, so the lengths fall strictly to 1, and the root is
\* made with exactly n - 1 Poseidon hashes of a pair; the content ID of N
\* entries, of 2N leaves, with 2N - 1.
MaxLeaves == 7
\* The poseidon.Hash calls that made a value.
RECURSIVE sumOver(_, _)
RECURSIVE poseidonCalls(_)
sumOver(ts, k) == IF k = 0 THEN 0 ELSE sumOver(ts, k - 1) + poseidonCalls(ts[k])
poseidonCalls(t) == IF t.tag = "poseidon" THEN 1 + sumOver(t.args, Len(t.args)) ELSE 0
\* The lengths of items, one loop of leanPoseidonIMT after the other.
RECURSIVE levelLengths(_)
levelLengths(items) ==
    IF Len(items) > 1 /\ imtLevel(items, 1, <<>>).err = ""
    THEN <<Len(items)>> \o levelLengths(imtLevel(items, 1, <<>>).val)
    ELSE <<Len(items)>>
HalvesToOne(lens) ==
    /\ lens[Len(lens)] = 1
    /\ \A k \in 1..(Len(lens) - 1) :
           lens[k + 1] = (lens[k] + 1) \div 2 /\ lens[k + 1] < lens[k]
TreeOf(inputs) ==
    /\ leanPoseidonIMT(inputs).err = ""
    /\ HalvesToOne(levelLengths(inputs))
    /\ poseidonCalls(leanPoseidonIMT(inputs).val)
         = Len(inputs) - 1 + sumOver(inputs, Len(inputs))
LeavesOf(ents) ==
    allHashesLoop(ents, sortStrings(CHOOSE iter \in Perms(DOMAIN ents) : TRUE), <<>>).val
C29_TreeOfPairHashes ==
    /\ \A n \in 1..MaxLeaves : TreeOf([k \in 1..n |-> Num(Pos(<<k>>))])
    /\ cid.err = "" =>
           /\ Len(LeavesOf(entries)) = 2 * Cardinality(DOMAIN entries)
           /\ TreeOf(LeavesOf(entries))
           /\ cid.val = leanPoseidonIMT(LeavesOf(entries)).val
           /\ poseidonCalls(cid.val) - sumOver(LeavesOf(entries), Len(LeavesOf(entries)))
                = 2 * Cardinality(DOMAIN entries) - 1
C29_Witness ==
    /\ cid.err = ""
    /\ Cardinality(DOMAIN entries) = 3
    /\ levelLengths(LeavesOf(entries)) = <<6, 3, 2, 1>>
    /\ poseidonCalls(cid.val) - sumOver(LeavesOf(entries), 6) = 5

\* C30: the hash of a value does not tell its kind: the int n and the
\* cryptographic n (0 <= n <= 2^63 - 1), the booleans true and false and the
\* ints 1 and 0, a string and the bytes of its characters hash alike; entries
\* that differ from the signed ones in such a kind only have the same content
\* ID, and the signature verifies for them.
KindNumbers ==
    { Pos(<<>>), Pos(<<1>>), Pos(<<32, 0, 0, 0>>), Pos(MagSub(Two63, <<1>>)) }
KindTexts == { <<>>, <<120>>, <<195, 169>>, <<255>> }
IsNumber(p, n) ==
    /\ p.ValueType \in {PodIntValue, PodCryptographicValue}
    /\ p.BigVal = n
IsBoolean(p, b) == p.ValueType = PodBooleanValue /\ p.BoolVal = b
SameButKind(a, b) ==
    \/ \E n \in KindNumbers : IsNumber(a, n) /\ IsNumber(b, n)
    \/ IsBoolean(a, TRUE) /\ IsNumber(b, Pos(<<1>>)) /\ b.ValueType = PodIntValue
    \/ IsBoolean(a, FALSE) /\ IsNumber(b, Pos(<<>>)) /\ b.ValueType = PodIntValue
    \/ /\ a.ValueType = PodStringValue
       /\ b.ValueType = PodBytesValue
       /\ a.StringVal.text = b.BytesVal.raw
KindChanged ==
    /\ signErr = ""
    /\ tamper.kind = "value"
    /\ \/ SameButKind(tamper.old, entries[tamper.name])
       \/ SameButKind(entries[tamper.name], tamper.old)
C30_KindIsNotHashed ==
    /\ \A n \in KindNumbers :
           /\ Hash(Value(PodIntValue, n)).err = ""
           /\ Hash(Value(PodIntValue, n)) = Hash(Value(PodCryptographicValue, n))
    /\ Hash(Value(PodBooleanValue, TRUE)) = Hash(Value(PodIntValue, Pos(<<1>>)))
    /\ Hash(Value(PodBooleanValue, FALSE)) = Hash(Value(PodIntValue, Pos(<<>>)))
    /\ \A cs \in KindTexts : Hash(Value(PodStringValue, cs)) = Hash(Value(PodBytesValue, cs))
    /\ KindChanged =>
           /\ \A iter \in Perms(DOMAIN entries) : computeContentID(entries, iter) = signed.cid
           /\ verifyRes # NoVerify => verifyRes = VerifiedTrue
C30_Witness ==
    /\ KindChanged
    /\ tamper.old.ValueType = PodStringValue
    /\ entries[tamper.name].ValueType = PodBytesValue
    /\ verifyRes = VerifiedTrue

====
